---- MODULE Spec2Model ----
(***************************************************************************)
(* Model of the OmniXtend block device driver (meca_blkdev):               *)
(*   omni_queue_rq -> omni_handle_request -> omni_do_dma_transfer ->       *)
(*   omni_wait_for_dma, and the interrupt handler omni_dma_irq_handler,    *)
(* running against the DMA engine the driver programs through its          *)
(* register file.                                                          *)
(*                                                                         *)
(* Units.  Lengths and offsets inside a request are bytes, as in the       *)
(* code.  Every length the block layer hands to the driver is a multiple   *)
(* of OMNI_SECTOR_SIZE, so memory contents are kept one cell per sector.   *)
(* Physical addresses (u64 in the code) are kept in units of one sector,   *)
(* because 0x200000000 does not fit the integers of the model checker;     *)
(* the register values computed from them are the byte values of the code. *)
(***************************************************************************)
EXTENDS Integers, Sequences, FiniteSets, TLC

(***************************************************************************)
(* Program constants                                                       *)
(***************************************************************************)
OMNI_SECTOR_SIZE == 512

DMA_STATUS_DONE == 4

\* OMNI_REMOTE_MEM_BASE (0x200000000) in sectors: 0x200000000 / 512
OMNI_REMOTE_MEM_BASE_S == 16777216

\* 2^32 bytes in sectors: the split between the _LO and the _HI register
WORD_S == 8388608

\* dev->dma_buffer_phys = virt_to_phys(dev->dma_buffer), in sectors
\* (0x10000000 / 512); any sector-aligned address outside remote memory
DMA_BUFFER_PHYS_S == 524288

(***************************************************************************)
(* Bounds of the model                                                     *)
(***************************************************************************)
\* The configurations of the device and of its load.
\*   Spec:    two workers handle one request each, concurrently, on a device
\*            with a bounce buffer of one sector; the interrupt line is not
\*            raised by other devices.
\*   SpecOne: one worker handles one request, on a device whose bounce buffer
\*            holds more than one sector, so that a segment can end in a
\*            partial chunk; the shared interrupt line can be raised by
\*            another device.
\*   SpecSeq: as Spec, but the second request is dispatched when the first
\*            has returned, and the shared interrupt line can be raised by
\*            another device.
\*   SpecFault: as SpecOne, with an engine that can give up a transfer.
\*   SpecPoll:  the scenario tool runs one dma_transfer, then the driver
\*              serves one request against an engine of the same behaviour.
\*   SpecDiag:  one worker, with GetStats and ResetStats called at any time.
\*   SpecProbe: omni_blkdev_probe and omni_blkdev_remove on two platform
\*              devices; no request is served.
\*   SpecFlush: one call of omni_flush_dcache_range, for every start
\*              address and length of a small window.

\* dev->dma_buffer_size in sectors under Spec (2048 in the driver)
BounceSectors == 1

\* dev->capacity_sectors under Spec (1048576 by default in the driver)
CapacitySectors == 2

\* dev->dma_buffer_size in sectors under SpecOne
OneBounceSectors == 2

\* dev->capacity_sectors under SpecOne
OneCapacitySectors == 4

\* longest segment, in sectors
MaxSegSectors == 3

\* most segments of a request
MaxSegs == 2

\* invocations of the handler by the shared interrupt line that the DMA
\* engine did not raise
MaxSpurious == 1

\* the workers that run omni_queue_rq, each for one request
Workers == {1, 2}

NoWorker == 0

(***************************************************************************)
(* Values                                                                  *)
(***************************************************************************)
REQ_OP_READ == "READ"
REQ_OP_WRITE == "WRITE"
REQ_OP_FLUSH == "FLUSH"

BLK_STS_OK == "BLK_STS_OK"
BLK_STS_IOERR == "BLK_STS_IOERR"
BLK_STS_NONE == "none"

ETIMEDOUT == 110

Min(a, b) == IF a < b THEN a ELSE b

RECURSIVE SumSeq(_)
SumSeq(s) == IF s = <<>> THEN 0 ELSE Head(s) + SumSeq(Tail(s))

\* lengths of a segment: multiples of the logical block size
SegLens == {k * OMNI_SECTOR_SIZE : k \in 1..MaxSegSectors}

SegLists == UNION {[1..n -> SegLens] : n \in 1..MaxSegs}

\* sectors of a request
TotalSectors(r) == SumSeq(r.segs) \div OMNI_SECTOR_SIZE

\* the requests the block layer can hand to omni_queue_rq on a disk of cap
\* sectors: the reads and writes that lie inside the disk, and one request of
\* another kind
ValidRequests(cap) ==
    {r \in [op : {REQ_OP_READ, REQ_OP_WRITE}, pos : 0..(cap - 1),
            segs : {l \in SegLists : SumSeq(l) <= cap * OMNI_SECTOR_SIZE}] :
        r.pos + TotalSectors(r) <= cap}
    \cup {[op |-> REQ_OP_FLUSH, pos |-> 0, segs |-> <<>>]}

NoRequest == [op |-> "none", pos |-> 0, segs |-> <<>>]

\* contents of the pages of the request of worker w: what a write carries,
\* and what a read buffer holds before the read
PageData(w, r) ==
    [s \in 1..Len(r.segs) |->
        [i \in 1..(r.segs[s] \div OMNI_SECTOR_SIZE) |->
            IF r.op = REQ_OP_WRITE THEN w * 100 + s * 10 + i ELSE 0]]

\* remote memory before any transfer
RemoteInit(cap) == [a \in 0..(cap - 1) |-> 900 + a]

VARIABLES
    dma_buffer_size,   \* dev->dma_buffer_size, in bytes
    capacity_sectors,  \* dev->capacity_sectors
    todo,        \* the workers that a request has yet to be dispatched to
    serial,      \* the block layer dispatches a request only when none is
                 \*   being handled
    pc,          \* position of each worker in omni_queue_rq and its callees
    rq,          \* the request each worker handles
    page,        \* the pages of the request's segments (kmap'ed bvec pages)
    started,     \* blk_mq_start_request was called for the request
    ended,       \* status handed to blk_mq_end_request, or "none"
    retval,      \* what omni_queue_rq returned
    seg,         \* rq_for_each_segment: index of the current segment
    sector,      \* local sector of omni_handle_request
    offset,      \* local offset of omni_handle_request
    chunk_size,  \* local chunk_size of omni_handle_request
    ret,         \* local ret: what omni_do_dma_transfer returned
    logged,      \* local status of omni_wait_for_dma: the DMA_STATUS value it
                 \*   read for the timeout message, if it read one
    status,      \* local status of omni_handle_request
    dma_mutex,   \* dev->dma_mutex: the worker that holds it, or NoWorker
    done,        \* dev->dma_complete.done
    stats,       \* dma_reads, dma_writes, dma_errors, dma_timeouts, irq_count
    dma_buffer,  \* contents of dev->dma_buffer, one cell per sector
    regs,        \* the register file of the DMA controller
    hw_status,   \* the DMA_STATUS register
    engine,      \* the DMA engine: busy or not, and the transfer it latched
    irq_line,    \* the engine raised its interrupt and no handler ran yet
    omni_mem,    \* contents of the remote memory, one cell per sector
    hpc,         \* position of omni_dma_irq_handler
    irq_ret,     \* what omni_dma_irq_handler returned last, or "none"
    spurious,    \* handler invocations left that the engine does not raise
    chunks,      \* history: per segment, the lengths handed to omni_do_dma_transfer
    starts,      \* history: writes of the start bit made for the request
    stats0,      \* history: the statistics when the worker took dma_mutex
    expected,    \* history: what the request yields when run alone, in its turn
    ref_mem,     \* history: remote memory after the requests run one by one
    ref_n,       \* history: transfers made by the requests run one by one
    clean,       \* history: every wait so far returned after the engine
                 \*   finished the transfer that the same invocation started
    last_write,  \* history: the last write request that returned BLK_STS_OK
    sig,         \* history: complete() was called since the last start bit
    cur,         \* history: what became of the transfer of the last start bit
    fresh,       \* history: complete() was called since the last
                 \* reinit_completion, and the wait has not returned
    ev,          \* history: what omni_do_dma_transfer did for the chunk
    tool,        \* the scenario tool (omni_scenario_test.c): its dma_transfer,
                 \* the engine and the PLIC it runs against
    diag,        \* the diagnostic channel: what GetStats returned last
    drv,         \* bring-up: omni_blkdev_probe and omni_blkdev_remove
    flush        \* the cache helper: one call of omni_flush_dcache_range

wvars == <<pc, rq, page, started, ended, retval, seg, sector, offset,
           chunk_size, ret, status, logged>>

dvars == <<dma_mutex, done, stats, dma_buffer, regs>>

hvars == <<hw_status, engine, irq_line, omni_mem, hpc, irq_ret, spurious>>

hist == <<chunks, starts, stats0, expected, ref_mem, ref_n, clean, last_write,
          sig, cur, fresh>>

gvars == <<hist, ev>>

cvars == <<dma_buffer_size, capacity_sectors, serial>>

\* the other programs of the repository that drive the engine
ovars == <<tool, diag, drv, flush>>

vars == <<cvars, todo, wvars, dvars, hvars, gvars, ovars>>

(***************************************************************************)
(* Register file: dma_setup_transfer                                       *)
(***************************************************************************)
\* (u32)(a & 0xFFFFFFFF), in bytes
Lo32(a) == (a % WORD_S) * OMNI_SECTOR_SIZE

\* the high word of an address dropped
Hi32_Dropped(a) == 0

\* (u32)(a >> 32)
Hi32(a) == a \div WORD_S

dma_setup_transfer(src, dst, len) ==
    [SRC_ADDR_LO |-> Lo32(src), SRC_ADDR_HI |-> Hi32(src),
     DST_ADDR_LO |-> Lo32(dst), DST_ADDR_HI |-> Hi32(dst),
     LENGTH_LO |-> len, LENGTH_HI |-> 0]

\* the 64-bit address a register pair holds, in sectors
RegAddr(lo, hi) == hi * WORD_S + lo \div OMNI_SECTOR_SIZE

NoStats == [reads |-> 0, writes |-> 0, errors |-> 0, timeouts |-> 0,
            irqs |-> 0]

NoExpected == [mem |-> <<>>, pages |-> <<>>, n |-> 0]

NoWrite == [valid |-> FALSE, pos |-> 0, data |-> <<>>]

Idle == [busy |-> FALSE, src |-> 0, dst |-> 0, len |-> 0]

\* the state after omni_blkdev_probe, for a device with a bounce buffer of
\* bounce sectors and a capacity of cap sectors, and the workers ws to serve
Probed(bounce, cap, ws, shared, one_by_one) ==
    /\ dma_buffer_size = bounce * OMNI_SECTOR_SIZE
    /\ capacity_sectors = cap
    /\ todo = ws
    /\ serial = one_by_one
    /\ pc = [w \in Workers |-> "idle"]
    /\ rq = [w \in Workers |-> NoRequest]
    /\ page = [w \in Workers |-> <<>>]
    /\ started = [w \in Workers |-> FALSE]
    /\ ended = [w \in Workers |-> BLK_STS_NONE]
    /\ retval = [w \in Workers |-> BLK_STS_NONE]
    /\ seg = [w \in Workers |-> 0]
    /\ sector = [w \in Workers |-> 0]
    /\ offset = [w \in Workers |-> 0]
    /\ chunk_size = [w \in Workers |-> 0]
    /\ ret = [w \in Workers |-> 0]
    /\ logged = [w \in Workers |-> <<>>]
    /\ status = [w \in Workers |-> BLK_STS_OK]
    /\ dma_mutex = NoWorker
    /\ done = 0
    /\ stats = NoStats
    /\ dma_buffer = [i \in 0..(bounce - 1) |-> 0]
    /\ regs = dma_setup_transfer(0, 0, 0)
    /\ hw_status = 0
    /\ engine = Idle
    /\ irq_line = FALSE
    /\ omni_mem = RemoteInit(cap)
    /\ hpc = "idle"
    /\ irq_ret = "none"
    /\ spurious = shared
    /\ chunks = [w \in Workers |-> <<>>]
    /\ starts = [w \in Workers |-> 0]
    /\ stats0 = [w \in Workers |-> NoStats]
    /\ expected = [w \in Workers |-> NoExpected]
    /\ ref_mem = RemoteInit(cap)
    /\ ref_n = 0
    /\ clean = TRUE
    /\ last_write = NoWrite
    /\ sig = FALSE
    /\ cur = "none"
    /\ fresh = FALSE
    /\ ev = [w \in Workers |-> <<>>]

\* the scenario tool is not run
NoTool == [pc |-> "off"]

\* the I/O path is modelled on a device that is bound for the whole run
Bound == [pc |-> "bound"]

\* the cache helper is not called on its own
NoFlush == [pc |-> "off"]

\* the diagnostic channel was not used
NoDiag == [n |-> 0, prev |-> "none", ret |-> <<>>, snap |-> NoStats]

Init ==
    /\ Probed(BounceSectors, CapacitySectors, Workers, 0, FALSE)
    /\ tool = NoTool
    /\ diag = NoDiag
    /\ drv = Bound
    /\ flush = NoFlush

InitOne ==
    /\ Probed(OneBounceSectors, OneCapacitySectors, {1}, MaxSpurious, FALSE)
    /\ tool = NoTool
    /\ diag = NoDiag
    /\ drv = Bound
    /\ flush = NoFlush

InitSeq ==
    /\ Probed(BounceSectors, CapacitySectors, Workers, MaxSpurious, TRUE)
    /\ tool = NoTool
    /\ diag = NoDiag
    /\ drv = Bound
    /\ flush = NoFlush

(***************************************************************************)
(* omni_queue_rq: the block layer dispatches a request to a worker         *)
(***************************************************************************)
\* a switch without the default case
IsReadWrite_NoDefault(r) == TRUE

\* switch (req_op(rq)): the cases that break
IsReadWrite(r) == r.op \in {REQ_OP_READ, REQ_OP_WRITE}

\* the request r arrives at worker w
Dispatch(w, r) ==
    /\ pc[w] = "idle"
    /\ w \in todo
    /\ \A v \in todo : w <= v
    /\ serial => \A v \in Workers : pc[v] = "idle"
    /\ todo' = todo \ {w}
    /\ rq' = [rq EXCEPT ![w] = r]
    /\ page' = [page EXCEPT ![w] = PageData(w, r)]
    /\ ended' = [ended EXCEPT ![w] = BLK_STS_NONE]

\* default: return BLK_STS_IOERR
omni_queue_rq_reject(w) ==
    /\ \E r \in ValidRequests(capacity_sectors) :
        /\ ~IsReadWrite(r)
        /\ Dispatch(w, r)
    /\ started' = [started EXCEPT ![w] = FALSE]
    /\ retval' = [retval EXCEPT ![w] = BLK_STS_IOERR]
    /\ UNCHANGED <<pc, seg, sector, offset, chunk_size, ret, status, logged>>
    /\ UNCHANGED <<dvars, hvars, gvars, cvars, ovars>>

\* blk_mq_start_request(rq), then the call of omni_handle_request
omni_queue_rq_start(w) ==
    /\ \E r \in ValidRequests(capacity_sectors) :
        /\ IsReadWrite(r)
        /\ Dispatch(w, r)
    /\ started' = [started EXCEPT ![w] = TRUE]
    /\ retval' = [retval EXCEPT ![w] = BLK_STS_NONE]
    /\ pc' = [pc EXCEPT ![w] = "lock"]
    /\ UNCHANGED <<seg, sector, offset, chunk_size, ret, status, logged>>
    /\ UNCHANGED <<dvars, hvars, gvars, cvars, ovars>>

(***************************************************************************)
(* omni_handle_request                                                     *)
(***************************************************************************)
is_write(w) == rq[w].op = REQ_OP_WRITE

\* bvec.bv_len of the current segment
len(w) == rq[w].segs[seg[w]]

\* a remote offset that does not follow the sector cursor
omni_offset_Start(w) == rq[w].pos * OMNI_SECTOR_SIZE

\* u64 omni_offset = sector * OMNI_SECTOR_SIZE
omni_offset(w) == sector[w] * OMNI_SECTOR_SIZE

\* where the loops go once the segment at index s is the next to handle
SegEntry(w, s) == IF s <= Len(rq[w].segs) THEN "chunk" ELSE "out"

\* a chunk that is not clamped to the bounce buffer
ChunkSize_Unclamped(l, off) == l - off

\* chunk_size = min(len - offset, dev->dma_buffer_size)
ChunkSize(l, off) == Min(l - off, dma_buffer_size)

\* a copy that always starts at the head of the segment
CopyToBuffer_NoOffset(buf, src, from, n) ==
    [i \in DOMAIN buf |->
        IF i < n \div OMNI_SECTOR_SIZE THEN src[i + 1] ELSE buf[i]]

\* memcpy(dst, src + from, n) over cells: dst[0 .. n/512) := src[from/512 ..)
\* (src is a page, indexed from 1; dst is the bounce buffer, indexed from 0)
CopyToBuffer(buf, src, from, n) ==
    [i \in DOMAIN buf |->
        IF i < n \div OMNI_SECTOR_SIZE
        THEN src[from \div OMNI_SECTOR_SIZE + i + 1]
        ELSE buf[i]]

\* memcpy(dst + at, src, n) over cells: dst[at/512 ..) := src[0 .. n/512)
CopyFromBuffer(dst, at, buf, n) ==
    [i \in DOMAIN dst |->
        IF /\ i - 1 >= at \div OMNI_SECTOR_SIZE
           /\ i - 1 < (at + n) \div OMNI_SECTOR_SIZE
        THEN buf[i - 1 - at \div OMNI_SECTOR_SIZE]
        ELSE dst[i]]

\* omni_handle_request run alone on remote memory mem, every transfer carried
\* out by the engine before the function goes on: the remote memory and the
\* pages it leaves, and the number of calls of omni_do_dma_transfer
RECURSIVE SerialRun(_, _, _, _, _, _, _)
SerialRun(r, mem, pg, s, sec, off, n) ==
    IF s > Len(r.segs) THEN [mem |-> mem, pages |-> pg, n |-> n]
    ELSE IF off < r.segs[s]
    THEN LET c == ChunkSize(r.segs[s], off)
             k == c \div OMNI_SECTOR_SIZE
             at == off \div OMNI_SECTOR_SIZE
             first == (sec * OMNI_SECTOR_SIZE + off) \div OMNI_SECTOR_SIZE
         IN IF r.op = REQ_OP_WRITE
            THEN SerialRun(r,
                    [a \in DOMAIN mem |->
                        IF a >= first /\ a < first + k
                        THEN pg[s][at + (a - first) + 1] ELSE mem[a]],
                    pg, s, sec, off + c, n + 1)
            ELSE SerialRun(r, mem,
                    [pg EXCEPT ![s] =
                        [i \in DOMAIN @ |->
                            IF i - 1 >= at /\ i - 1 < at + k
                            THEN mem[first + (i - 1 - at)] ELSE @[i]]],
                    s, sec, off + c, n + 1)
    ELSE SerialRun(r, mem, pg, s + 1, sec + r.segs[s] \div OMNI_SECTOR_SIZE,
                   0, n)

RECURSIVE Flatten(_)
Flatten(pg) == IF pg = <<>> THEN <<>> ELSE Head(pg) \o Flatten(Tail(pg))

Overlaps(r, pos, n) == r.pos < pos + n /\ pos < r.pos + TotalSectors(r)

\* a lock that is never waited for
MutexAvailable_Always == TRUE

\* mutex_lock can return when no one holds the mutex
MutexAvailable == dma_mutex = NoWorker

\* entry: the initialisers of the locals, then mutex_lock(&dev->dma_mutex)
mutex_lock(w) ==
    /\ pc[w] = "lock"
    /\ MutexAvailable
    /\ dma_mutex' = w
    /\ sector' = [sector EXCEPT ![w] = rq[w].pos]
    /\ status' = [status EXCEPT ![w] = BLK_STS_OK]
    /\ seg' = [seg EXCEPT ![w] = 1]
    /\ offset' = [offset EXCEPT ![w] = 0]
    /\ pc' = [pc EXCEPT ![w] = SegEntry(w, 1)]
    /\ chunks' = [chunks EXCEPT ![w] = [s \in 1..Len(rq[w].segs) |-> <<>>]]
    /\ starts' = [starts EXCEPT ![w] = 0]
    /\ stats0' = [stats0 EXCEPT ![w] = stats]
    /\ LET e == SerialRun(rq[w], ref_mem, page[w], 1, rq[w].pos, 0, 0) IN
        /\ expected' = [expected EXCEPT ![w] = e]
        /\ ref_mem' = e.mem
        /\ ref_n' = ref_n + e.n
    /\ last_write' =
          IF /\ is_write(w)
             /\ last_write.valid
             /\ Overlaps(rq[w], last_write.pos, Len(last_write.data))
          THEN NoWrite ELSE last_write
    /\ UNCHANGED <<rq, page, started, ended, retval, chunk_size, ret,
                   logged>>
    /\ UNCHANGED <<done, stats, dma_buffer, regs>>
    /\ UNCHANGED <<hvars, clean, sig, cur, fresh, ev>>
    /\ UNCHANGED <<cvars, todo, ovars>>

\* head of the while loop: the chunk size, and for a write the staging copy
stage_chunk(w) ==
    /\ pc[w] = "chunk"
    /\ LET c == ChunkSize(len(w), offset[w]) IN
        /\ chunk_size' = [chunk_size EXCEPT ![w] = c]
        /\ dma_buffer' =
              IF is_write(w)
              THEN CopyToBuffer(dma_buffer, page[w][seg[w]], offset[w], c)
              ELSE dma_buffer
    /\ pc' = [pc EXCEPT ![w] = "setup"]
    /\ UNCHANGED <<rq, page, started, ended, retval, seg, sector, offset,
                   ret, status, logged>>
    /\ UNCHANGED <<dma_mutex, done, stats, regs>>
    /\ UNCHANGED <<hvars, gvars>>
    /\ UNCHANGED <<cvars, todo, ovars>>

(***************************************************************************)
(* omni_do_dma_transfer(dev, omni_offset + offset, chunk_size, is_write)   *)
(***************************************************************************)
\* u64 omni_addr = dev->omni_mem_phys + omni_offset, in sectors
omni_addr(w) ==
    OMNI_REMOTE_MEM_BASE_S + (omni_offset(w) + offset[w]) \div OMNI_SECTOR_SIZE

\* the completion reinitialised after the start bit is written
ExecNext_StartFirst(p) ==
    CASE p = "setup" -> "start"
      [] p = "start" -> "reinit"
      [] p = "reinit" -> "wait"

\* the order of the statements that follow the register setup
ExecNext(p) ==
    CASE p = "setup" -> "reinit"
      [] p = "reinit" -> "start"
      [] p = "start" -> "wait"

\* a flush of the destination range where the source range is due
FlushSource_Swapped(wr) == IF wr THEN "flush_remote" ELSE "flush_bounce"

\* omni_flush_dcache_range before the transfer: the bounce buffer for a
\* write, the remote range for a read
FlushSource(wr) == IF wr THEN "flush_bounce" ELSE "flush_remote"

\* the flush of the source range and dma_setup_transfer
setup_transfer(w) ==
    /\ pc[w] = "setup"
    /\ regs' = IF is_write(w)
               THEN dma_setup_transfer(DMA_BUFFER_PHYS_S, omni_addr(w),
                                       chunk_size[w])
               ELSE dma_setup_transfer(omni_addr(w), DMA_BUFFER_PHYS_S,
                                       chunk_size[w])
    /\ chunks' = [chunks EXCEPT ![w][seg[w]] = Append(@, chunk_size[w])]
    /\ ev' = [ev EXCEPT ![w] = <<FlushSource(is_write(w)), "program">>]
    /\ UNCHANGED starts
    /\ pc' = [pc EXCEPT ![w] = ExecNext("setup")]
    /\ UNCHANGED <<rq, page, started, ended, retval, seg, sector, offset,
                   chunk_size, ret, status, logged>>
    /\ UNCHANGED <<dma_mutex, done, stats, dma_buffer>>
    /\ UNCHANGED <<hvars, stats0, expected, ref_mem, ref_n, clean,
                   last_write, sig, cur, fresh>>
    /\ UNCHANGED <<cvars, todo, ovars>>

\* a reset that keeps the completions signalled so far
ResetDone_Keep(d) == d

\* reinit_completion(&dev->dma_complete): x->done = 0
ResetDone(d) == 0

reinit_completion(w) ==
    /\ pc[w] = "reinit"
    /\ done' = ResetDone(done)
    /\ fresh' = FALSE
    /\ ev' = [ev EXCEPT ![w] = Append(@, "reset")]
    /\ pc' = [pc EXCEPT ![w] = ExecNext("reinit")]
    /\ UNCHANGED <<rq, page, started, ended, retval, seg, sector, offset,
                   chunk_size, ret, status, logged>>
    /\ UNCHANGED <<dma_mutex, stats, dma_buffer, regs>>
    /\ UNCHANGED <<hvars, chunks, starts, stats0, expected, ref_mem, ref_n,
                   clean, last_write, sig, cur>>
    /\ UNCHANGED <<cvars, todo, ovars>>

\* the transfer the register file describes
Latched == [busy |-> TRUE,
            src |-> RegAddr(regs.SRC_ADDR_LO, regs.SRC_ADDR_HI),
            dst |-> RegAddr(regs.DST_ADDR_LO, regs.DST_ADDR_HI),
            len |-> regs.LENGTH_LO]

\* dma_start: DMA_CONTROL = 1.  An idle engine latches the registers, clears
\* the done bit and runs.  What a busy engine does with the start bit is not
\* fixed by the driver: it restarts with the new registers, or ignores the bit.
dma_start(w) ==
    /\ pc[w] = "start"
    /\ \E accept \in (IF engine.busy THEN BOOLEAN ELSE {TRUE}) :
        IF accept
        THEN /\ engine' = Latched
             /\ hw_status' = 0
             /\ cur' = "running"
        ELSE /\ UNCHANGED <<engine, hw_status>>
             /\ cur' = "ignored"
    /\ sig' = FALSE
    /\ starts' = [starts EXCEPT ![w] = @ + 1]
    /\ ev' = [ev EXCEPT ![w] = Append(@, "start")]
    /\ pc' = [pc EXCEPT ![w] = ExecNext("start")]
    /\ UNCHANGED <<rq, page, started, ended, retval, seg, sector, offset,
                   chunk_size, ret, status, logged>>
    /\ UNCHANGED dvars
    /\ UNCHANGED <<irq_line, omni_mem, hpc, irq_ret, spurious>>
    /\ UNCHANGED <<chunks, stats0, expected, ref_mem, ref_n, clean,
                   last_write, fresh>>
    /\ UNCHANGED <<cvars, todo, ovars>>

(***************************************************************************)
(* omni_wait_for_dma                                                       *)
(***************************************************************************)
\* history: what is kept of the transfer's fate once the wait has returned
AfterWait(c) == IF c = "failed" THEN "failed" ELSE "none"

\* wait_for_completion_timeout returns non-zero: it consumed one completion
wait_ready(w) ==
    /\ pc[w] = "wait"
    /\ done > 0
    /\ done' = done - 1
    /\ ret' = [ret EXCEPT ![w] = 0]
    /\ clean' = (clean /\ cur = "finished")
    /\ sig' = FALSE
    /\ fresh' = FALSE
    /\ ev' = [ev EXCEPT ![w] = Append(@, "wait")]
    /\ cur' = AfterWait(cur)
    /\ pc' = [pc EXCEPT ![w] = "ret"]
    /\ UNCHANGED <<rq, page, started, ended, retval, seg, sector, offset,
                   chunk_size, status, logged>>
    /\ UNCHANGED <<dma_mutex, stats, dma_buffer, regs>>
    /\ UNCHANGED <<hvars, chunks, starts, stats0, expected, ref_mem, ref_n,
                   last_write>>
    /\ UNCHANGED <<cvars, todo, ovars>>

\* a timeout that is not counted
CountTimeout_Missing(st) == st

\* atomic64_inc(&dev->dma_timeouts)
CountTimeout(st) == [st EXCEPT !.timeouts = @ + 1]

\* wait_for_completion_timeout returns 0 after DMA_TIMEOUT_MS without a
\* completion
wait_timeout(w) ==
    /\ pc[w] = "wait"
    /\ done = 0
    /\ clean' = FALSE
    /\ sig' = FALSE
    /\ fresh' = FALSE
    /\ ev' = [ev EXCEPT ![w] = Append(@, "wait")]
    /\ cur' = AfterWait(cur)
    /\ pc' = [pc EXCEPT ![w] = "timedout"]
    /\ UNCHANGED <<rq, page, started, ended, retval, seg, sector, offset,
                   chunk_size, ret, status, logged>>
    /\ UNCHANGED dvars
    /\ UNCHANGED <<hvars, chunks, starts, stats0, expected, ref_mem, ref_n,
                   last_write>>
    /\ UNCHANGED <<cvars, todo, ovars>>

\* if (timeout == 0): status = dma_read_status(dev), the message with the
\* status, dma_timeouts is incremented, return -ETIMEDOUT
timeout_report(w) ==
    /\ pc[w] = "timedout"
    /\ logged' = [logged EXCEPT ![w] = <<hw_status>>]
    /\ stats' = CountTimeout(stats)
    /\ ret' = [ret EXCEPT ![w] = -ETIMEDOUT]
    /\ pc' = [pc EXCEPT ![w] = "ret"]
    /\ UNCHANGED <<rq, page, started, ended, retval, seg, sector, offset,
                   chunk_size, status>>
    /\ UNCHANGED <<dma_mutex, done, dma_buffer, regs>>
    /\ UNCHANGED <<hvars, gvars>>
    /\ UNCHANGED <<cvars, todo, ovars>>

\* a failure after which the loop goes on
FailTarget_Continue == "copy"

\* a failure that returns without mutex_unlock
FailTarget_NoUnlock == "end"

\* a failure after which the transfer is started again
FailTarget_Retry == "start"

\* where omni_handle_request goes when omni_do_dma_transfer failed:
\* status = BLK_STS_IOERR; goto out
FailTarget == "out"

\* a failure that is not counted
CountError_Missing(st) == st

\* atomic64_inc(&dev->dma_errors)
CountError(st) == [st EXCEPT !.errors = @ + 1]

\* if (ret): dma_errors is incremented and ret returned; the caller sets
\* status = BLK_STS_IOERR and leaves both loops
transfer_failed(w) ==
    /\ pc[w] = "ret"
    /\ ret[w] # 0
    /\ stats' = CountError(stats)
    /\ status' = [status EXCEPT ![w] = BLK_STS_IOERR]
    /\ pc' = [pc EXCEPT ![w] = FailTarget]
    /\ UNCHANGED <<rq, page, started, ended, retval, seg, sector, offset,
                   chunk_size, ret, logged>>
    /\ UNCHANGED <<dma_mutex, done, dma_buffer, regs>>
    /\ UNCHANGED <<hvars, gvars>>
    /\ UNCHANGED <<cvars, todo, ovars>>

\* a transfer counted for the other direction
CountTransfer_Swapped(st, wr) ==
    IF wr THEN [st EXCEPT !.reads = @ + 1] ELSE [st EXCEPT !.writes = @ + 1]

\* atomic64_inc(&dev->dma_writes) or atomic64_inc(&dev->dma_reads)
CountTransfer(st, wr) ==
    IF wr THEN [st EXCEPT !.writes = @ + 1] ELSE [st EXCEPT !.reads = @ + 1]

\* omni_flush_dcache_range after the transfer: the remote range for a write,
\* the bounce buffer for a read
FlushDest(wr) == IF wr THEN "flush_remote" ELSE "flush_bounce"

\* the flush of the destination range, then dma_writes or dma_reads
transfer_ok(w) ==
    /\ pc[w] = "ret"
    /\ ret[w] = 0
    /\ stats' = CountTransfer(stats, is_write(w))
    /\ ev' = [ev EXCEPT ![w] = @ \o <<FlushDest(is_write(w)), "count">>]
    /\ pc' = [pc EXCEPT ![w] = "copy"]
    /\ UNCHANGED <<rq, page, started, ended, retval, seg, sector, offset,
                   chunk_size, ret, status, logged>>
    /\ UNCHANGED <<dma_mutex, done, dma_buffer, regs>>
    /\ UNCHANGED <<hvars, hist>>
    /\ UNCHANGED <<cvars, todo, ovars>>

(***************************************************************************)
(* omni_handle_request, after the transfer                                 *)
(***************************************************************************)
\* a loop that does not advance
NextOffset_Stuck(w) == offset[w]

\* offset += chunk_size
NextOffset(w) == offset[w] + chunk_size[w]

\* for a read the copy out of the bounce buffer; offset += chunk_size; at
\* the end of the segment sector += len / OMNI_SECTOR_SIZE and the next
\* segment
finish_chunk(w) ==
    /\ pc[w] = "copy"
    /\ page' = IF is_write(w)
               THEN page
               ELSE [page EXCEPT ![w][seg[w]] =
                        CopyFromBuffer(@, offset[w], dma_buffer, chunk_size[w])]
    /\ IF NextOffset(w) < len(w)
       THEN /\ offset' = [offset EXCEPT ![w] = NextOffset(w)]
            /\ pc' = [pc EXCEPT ![w] = "chunk"]
            /\ UNCHANGED <<sector, seg>>
       ELSE /\ offset' = [offset EXCEPT ![w] = 0]
            /\ sector' = [sector EXCEPT ![w] = @ + len(w) \div OMNI_SECTOR_SIZE]
            /\ seg' = [seg EXCEPT ![w] = @ + 1]
            /\ pc' = [pc EXCEPT ![w] = SegEntry(w, seg[w] + 1)]
    /\ ev' = [ev EXCEPT ![w] = <<>>]
    /\ UNCHANGED <<rq, started, ended, retval, chunk_size, ret, status, logged>>
    /\ UNCHANGED <<dvars, hvars, hist>>
    /\ UNCHANGED <<cvars, todo, ovars>>

\* out: mutex_unlock(&dev->dma_mutex); return status.  The locals of
\* omni_handle_request end with the return.
mutex_unlock(w) ==
    /\ pc[w] = "out"
    /\ dma_mutex' = NoWorker
    /\ pc' = [pc EXCEPT ![w] = "end"]
    /\ seg' = [seg EXCEPT ![w] = 0]
    /\ sector' = [sector EXCEPT ![w] = 0]
    /\ offset' = [offset EXCEPT ![w] = 0]
    /\ chunk_size' = [chunk_size EXCEPT ![w] = 0]
    /\ ret' = [ret EXCEPT ![w] = 0]
    /\ logged' = [logged EXCEPT ![w] = <<>>]
    /\ chunks' = [chunks EXCEPT ![w] = <<>>]
    /\ starts' = [starts EXCEPT ![w] = 0]
    /\ stats0' = [stats0 EXCEPT ![w] = NoStats]
    /\ expected' = [expected EXCEPT ![w] = NoExpected]
    /\ last_write' =
          IF is_write(w) /\ status[w] = BLK_STS_OK
          THEN [valid |-> TRUE, pos |-> rq[w].pos, data |-> Flatten(page[w])]
          ELSE last_write
    /\ UNCHANGED <<rq, page, started, ended, retval, status>>
    /\ UNCHANGED <<done, stats, dma_buffer, regs>>
    /\ cur' = "none"
    /\ ev' = [ev EXCEPT ![w] = <<>>]
    /\ UNCHANGED <<hvars, ref_mem, ref_n, clean, sig, fresh>>
    /\ UNCHANGED <<cvars, todo, ovars>>

\* a request that is always ended as successful
EndStatus_Ok(w) == BLK_STS_OK

\* status = omni_handle_request(dev, rq): what blk_mq_end_request is given
EndStatus(w) == status[w]

\* blk_mq_end_request(rq, status); return BLK_STS_OK
omni_queue_rq_end(w) ==
    /\ pc[w] = "end"
    /\ ended' = [ended EXCEPT ![w] = EndStatus(w)]
    /\ retval' = [retval EXCEPT ![w] = BLK_STS_OK]
    /\ status' = [status EXCEPT ![w] = BLK_STS_OK]
    /\ pc' = [pc EXCEPT ![w] = "idle"]
    /\ UNCHANGED <<rq, page, started, seg, sector, offset, chunk_size, ret,
                   logged>>
    /\ UNCHANGED <<dvars, hvars, gvars>>
    /\ UNCHANGED <<cvars, todo, ovars>>

(***************************************************************************)
(* The DMA engine                                                          *)
(***************************************************************************)
InRemote(a) ==
    /\ a >= OMNI_REMOTE_MEM_BASE_S
    /\ a < OMNI_REMOTE_MEM_BASE_S + capacity_sectors

InBounce(a) ==
    /\ a >= DMA_BUFFER_PHYS_S
    /\ a < DMA_BUFFER_PHYS_S + dma_buffer_size \div OMNI_SECTOR_SIZE

\* the cell at physical address a (in sectors)
Load(a) ==
    IF InBounce(a) THEN dma_buffer[a - DMA_BUFFER_PHYS_S]
    ELSE IF InRemote(a) THEN omni_mem[a - OMNI_REMOTE_MEM_BASE_S]
    ELSE 0

\* memory of the region at base after the latched transfer was carried out
Transferred(mem, base) ==
    [i \in DOMAIN mem |->
        IF /\ base + i >= engine.dst
           /\ base + i < engine.dst + engine.len \div OMNI_SECTOR_SIZE
        THEN Load(engine.src + (base + i - engine.dst))
        ELSE mem[i]]

\* the engine finishes the transfer it latched: the data is moved, the done
\* bit is set in DMA_STATUS and the interrupt is raised
EngineFinish ==
    /\ engine.busy
    /\ dma_buffer' = Transferred(dma_buffer, DMA_BUFFER_PHYS_S)
    /\ omni_mem' = Transferred(omni_mem, OMNI_REMOTE_MEM_BASE_S)
    /\ engine' = Idle
    /\ hw_status' = DMA_STATUS_DONE
    /\ irq_line' = TRUE
    /\ cur' = IF cur = "running" THEN "finished" ELSE cur
    /\ UNCHANGED wvars
    /\ UNCHANGED <<dma_mutex, done, stats, regs>>
    /\ UNCHANGED <<hpc, irq_ret, spurious>>
    /\ UNCHANGED <<chunks, starts, stats0, expected, ref_mem, ref_n, clean,
                   last_write, sig, fresh, ev>>
    /\ UNCHANGED <<cvars, todo, ovars>>

\* status words of an engine that gave up a transfer: a bit other than the
\* done bit is set, and the done bit is set or not
FailStatuses == {1, DMA_STATUS_DONE + 1}

\* the engine gives up the transfer it latched: no data is moved, DMA_STATUS
\* shows a failure and the interrupt is raised
EngineFail ==
    /\ engine.busy
    /\ engine' = Idle
    /\ \E st \in FailStatuses : hw_status' = st
    /\ irq_line' = TRUE
    /\ cur' = IF cur = "running" THEN "failed" ELSE cur
    /\ UNCHANGED wvars
    /\ UNCHANGED dvars
    /\ UNCHANGED <<omni_mem, hpc, irq_ret, spurious>>
    /\ UNCHANGED <<chunks, starts, stats0, expected, ref_mem, ref_n, clean,
                   last_write, sig, fresh, ev>>
    /\ UNCHANGED <<cvars, todo, ovars>>

(***************************************************************************)
(* omni_dma_irq_handler                                                    *)
(***************************************************************************)
IRQ_NONE == "IRQ_NONE"

IRQ_HANDLED == "IRQ_HANDLED"

\* a handler that does not look at the status
StatusDone_Any(st) == TRUE

\* status & DMA_STATUS_DONE
StatusDone(st) == (st \div DMA_STATUS_DONE) % 2 = 1

\* the handler is entered for the interrupt of the engine, or because another
\* device raised the shared line (IRQF_SHARED)
Delivered ==
    /\ hpc = "idle"
    /\ irq_line \/ spurious > 0
    /\ irq_line' = FALSE
    /\ spurious' = IF irq_line THEN spurious ELSE spurious - 1

\* status = dma_read_status(dev); the done bit is clear: return IRQ_NONE
irq_handler_none ==
    /\ Delivered
    /\ ~StatusDone(hw_status)
    /\ irq_ret' = IRQ_NONE
    /\ UNCHANGED <<wvars, dvars, gvars>>
    /\ UNCHANGED <<hw_status, engine, omni_mem, hpc>>
    /\ UNCHANGED <<cvars, todo, ovars>>

\* status = dma_read_status(dev); the done bit is set
irq_handler_done ==
    /\ Delivered
    /\ StatusDone(hw_status)
    /\ hpc' = "complete"
    /\ UNCHANGED <<wvars, dvars, gvars>>
    /\ UNCHANGED <<hw_status, engine, omni_mem, irq_ret>>
    /\ UNCHANGED <<cvars, todo, ovars>>

\* complete(&dev->dma_complete)
irq_handler_complete ==
    /\ hpc = "complete"
    /\ done' = done + 1
    /\ sig' = TRUE
    /\ fresh' = (fresh \/ \E w \in Workers : pc[w] \in {"start", "wait"})
    /\ hpc' = "count"
    /\ UNCHANGED wvars
    /\ UNCHANGED <<dma_mutex, stats, dma_buffer, regs>>
    /\ UNCHANGED <<hw_status, engine, irq_line, omni_mem, irq_ret, spurious>>
    /\ UNCHANGED <<chunks, starts, stats0, expected, ref_mem, ref_n, clean,
                   last_write, cur, ev>>
    /\ UNCHANGED <<cvars, todo, ovars>>

\* an interrupt that is not counted
CountIrq_Missing(st) == st

\* an interrupt counted as an error too
CountIrq_AndError(st) == [st EXCEPT !.irqs = @ + 1, !.errors = @ + 1]

\* atomic64_inc(&dev->irq_count)
CountIrq(st) == [st EXCEPT !.irqs = @ + 1]

\* atomic64_inc(&dev->irq_count); return IRQ_HANDLED
irq_handler_count ==
    /\ hpc = "count"
    /\ stats' = CountIrq(stats)
    /\ irq_ret' = IRQ_HANDLED
    /\ hpc' = "idle"
    /\ UNCHANGED wvars
    /\ UNCHANGED <<dma_mutex, done, dma_buffer, regs>>
    /\ UNCHANGED <<hw_status, engine, irq_line, omni_mem, spurious>>
    /\ UNCHANGED gvars
    /\ UNCHANGED <<cvars, todo, ovars>>

(***************************************************************************)
(* The system                                                              *)
(***************************************************************************)
Next ==
    \/ \E w \in Workers : omni_queue_rq_reject(w)
    \/ \E w \in Workers : omni_queue_rq_start(w)
    \/ \E w \in Workers : mutex_lock(w)
    \/ \E w \in Workers : stage_chunk(w)
    \/ \E w \in Workers : setup_transfer(w)
    \/ \E w \in Workers : reinit_completion(w)
    \/ \E w \in Workers : dma_start(w)
    \/ \E w \in Workers : wait_ready(w)
    \/ \E w \in Workers : wait_timeout(w)
    \/ \E w \in Workers : timeout_report(w)
    \/ \E w \in Workers : transfer_failed(w)
    \/ \E w \in Workers : transfer_ok(w)
    \/ \E w \in Workers : finish_chunk(w)
    \/ \E w \in Workers : mutex_unlock(w)
    \/ \E w \in Workers : omni_queue_rq_end(w)
    \/ EngineFinish
    \/ irq_handler_none
    \/ irq_handler_done
    \/ irq_handler_complete
    \/ irq_handler_count

Spec == Init /\ [][Next]_vars

\* the steps of worker w once its request was accepted
WorkerStep(w) ==
    \/ mutex_lock(w)
    \/ stage_chunk(w)
    \/ setup_transfer(w)
    \/ reinit_completion(w)
    \/ dma_start(w)
    \/ wait_ready(w)
    \/ wait_timeout(w)
    \/ timeout_report(w)
    \/ transfer_failed(w)
    \/ transfer_ok(w)
    \/ finish_chunk(w)
    \/ mutex_unlock(w)
    \/ omni_queue_rq_end(w)

\* the scheduler runs every worker that can run; the wait of a worker ends
\* with the completion or with the timeout.  Nothing is assumed of the engine
\* and of the interrupt line.
FairSpec == Spec /\ \A w \in Workers : WF_vars(WorkerStep(w))

SpecOne == InitOne /\ [][Next]_vars

SpecSeq == InitSeq /\ [][Next]_vars

\* the driver with an engine that can fail
NextFault ==
    \/ Next
    \/ EngineFail

SpecFault == InitOne /\ [][NextFault]_vars

(***************************************************************************)
(* omni_scenario_test.c: dma_transfer, the polling strategy                *)
(*                                                                         *)
(* The tool is a bare-metal program: it owns the engine while it runs.     *)
(* tool.busy, tool.hw, tool.pending and tool.inservice are the engine and  *)
(* the PLIC it runs against; tool.beh is the behaviour of the engine: the  *)
(* status word it leaves when it ends a transfer, and whether it ends it   *)
(* within the budget of the waiter.                                        *)
(***************************************************************************)
DMA_IRQ_NUM == 1

\* the interrupt ids of other sources that the PLIC can hand out
OtherIrqs == {2}

\* the polling budget, standing for int timeout = 100000
PollBudget == 3

\* the interrupts of other sources raised while the tool runs
MaxOther == 1

\* what an engine does with a transfer
Behaviours ==
    [st : {1, DMA_STATUS_DONE, DMA_STATUS_DONE + 1}, in_time : BOOLEAN]

\* the tool about to call dma_transfer against an engine of behaviour b;
\* dd is what an earlier call left in the global dma_done
ToolStart(b, dd) ==
    [pc |-> "entry", beh |-> b,
     dma_done |-> dd, timeout |-> 0, irq |-> 0, status |-> 0, ret |-> <<>>,
     busy |-> FALSE, hw |-> 0, pending |-> {}, inservice |-> {},
     other |-> MaxOther,
     flushed |-> <<>>, claims |-> 0, acks |-> 0, polls |-> 0]

drvvars == <<cvars, todo, wvars, dvars, hvars, gvars, diag, drv, flush>>

\* dma_done = 0;
tool_entry ==
    /\ tool.pc = "entry"
    /\ tool' = [tool EXCEPT !.dma_done = 0, !.pc = "program"]
    /\ UNCHANGED drvvars

\* the six write_reg_u64 of the addresses and the length
tool_program ==
    /\ tool.pc = "program"
    /\ tool' = [tool EXCEPT !.pc = "flush_src"]
    /\ UNCHANGED drvvars

\* flush_dcache_range(src_addr, length)
tool_flush_src ==
    /\ tool.pc = "flush_src"
    /\ tool' = [tool EXCEPT !.flushed = Append(@, "src"), !.pc = "start"]
    /\ UNCHANGED drvvars

\* write_reg_u64(DMA_CONTROL, 1): the engine clears its status and runs;
\* int timeout = 100000; irq = 0; status = 0
tool_start ==
    /\ tool.pc = "start"
    /\ tool' = [tool EXCEPT !.busy = TRUE, !.hw = 0,
                            !.timeout = PollBudget, !.irq = 0, !.status = 0,
                            !.pc = "loop"]
    /\ UNCHANGED drvvars

\* while (timeout > 0 && !dma_done)
tool_loop ==
    /\ tool.pc = "loop"
    /\ tool' = [tool EXCEPT !.pc = IF tool.timeout > 0 /\ tool.dma_done = 0
                                  THEN "claim" ELSE "after"]
    /\ UNCHANGED drvvars

\* a read of the PLIC claim register: 0 when nothing is pending, else the id
\* of a pending interrupt, which is then in service until it is completed
PlicClaim(id) ==
    IF id = 0
    THEN /\ tool.pending = {}
         /\ tool' = [tool EXCEPT !.irq = 0, !.polls = @ + 1, !.pc = "irq"]
    ELSE /\ id \in tool.pending
         /\ tool' = [tool EXCEPT !.irq = id, !.polls = @ + 1,
                                 !.pending = @ \ {id},
                                 !.inservice = @ \cup {id},
                                 !.claims = @ + 1, !.pc = "irq"]

\* irq = plic_claim(HART_ID)
tool_claim ==
    /\ tool.pc = "claim"
    /\ \E id \in {0, DMA_IRQ_NUM} \cup OtherIrqs : PlicClaim(id)
    /\ UNCHANGED drvvars

\* a tool that acknowledges no interrupt
PlicComplete_Missing(t) == t

\* plic_complete(HART_ID, irq): a write of the id to the claim register
PlicComplete(t) == [t EXCEPT !.inservice = @ \ {t.irq}, !.acks = @ + 1]

\* if (irq == DMA_IRQ_NUM) { dma_done = 1; plic_complete(...); break; }
tool_irq_dma ==
    /\ tool.pc = "irq"
    /\ tool.irq = DMA_IRQ_NUM
    /\ tool' = [PlicComplete(tool) EXCEPT !.dma_done = 1,
                                          !.pc = "after"]
    /\ UNCHANGED drvvars

\* else if (irq != 0) { plic_complete(HART_ID, irq); }
tool_irq_other ==
    /\ tool.pc = "irq"
    /\ tool.irq # DMA_IRQ_NUM
    /\ tool.irq # 0
    /\ tool' = [PlicComplete(tool) EXCEPT !.pc = "status"]
    /\ UNCHANGED drvvars

\* irq == 0: neither branch
tool_irq_none ==
    /\ tool.pc = "irq"
    /\ tool.irq = 0
    /\ tool' = [tool EXCEPT !.pc = "status"]
    /\ UNCHANGED drvvars

\* status & 0x1
PollDone(st) == st % 2 = 1

\* status = read_reg_u32(DMA_STATUS); if (status & 0x1) { dma_done = 1; break; }
tool_status ==
    /\ tool.pc = "status"
    /\ tool' = IF PollDone(tool.hw)
               THEN [tool EXCEPT !.status = tool.hw, !.dma_done = 1,
                                 !.pc = "after"]
               ELSE [tool EXCEPT !.status = tool.hw, !.pc = "dec"]
    /\ UNCHANGED drvvars

\* the iterations of the loop that interrupts of other sources can take up
Slack == tool.other + Cardinality(tool.pending \cap OtherIrqs)

\* the budget does not run out on an engine that ends its transfer in time
InBudget == (tool.beh.in_time /\ tool.busy) => tool.timeout > 1 + Slack

\* check_count++; timeout--;
tool_dec ==
    /\ tool.pc = "dec"
    /\ InBudget
    /\ tool' = [tool EXCEPT !.timeout = @ - 1, !.pc = "loop"]
    /\ UNCHANGED drvvars

\* if (!dma_done) { printf("[ERROR] DMA timeout!"); return 0; }
tool_timeout ==
    /\ tool.pc = "after"
    /\ tool.dma_done = 0
    /\ tool' = [tool EXCEPT !.ret = <<0>>, !.pc = "returned"]
    /\ UNCHANGED drvvars

\* final_status = read_reg_u32(DMA_STATUS);
\* flush_dcache_range(dst_addr, length); return 1;
tool_success ==
    /\ tool.pc = "after"
    /\ tool.dma_done # 0
    /\ tool' = [tool EXCEPT !.flushed = Append(@, "dst"),
                            !.ret = <<1>>, !.pc = "returned"]
    /\ UNCHANGED drvvars

\* an iteration of the loop that claims the interrupt of the engine is still
\* to come
PollAhead ==
    \/ tool.pc \in {"loop", "claim"} /\ tool.timeout > Slack
    \/ tool.pc \in {"irq", "status", "dec"} /\ tool.timeout > 1 + Slack

\* the engine ends the transfer: it leaves its status word and raises the
\* interrupt; in time, or after the waiter gave up
ToolEngineEnd ==
    /\ tool.pc # "off"
    /\ tool.busy
    /\ IF tool.beh.in_time
       THEN PollAhead
       ELSE tool.pc = "returned"
    /\ tool' = [tool EXCEPT !.busy = FALSE, !.hw = tool.beh.st,
                            !.pending = @ \cup {DMA_IRQ_NUM}]
    /\ UNCHANGED drvvars

\* another source raises its interrupt at the PLIC
PlicOther ==
    /\ tool.pc \notin {"off", "returned"}
    /\ tool.other > 0
    /\ \E id \in OtherIrqs :
        tool' = [tool EXCEPT !.other = @ - 1, !.pending = @ \cup {id}]
    /\ UNCHANGED drvvars

\* the tool runs one dma_transfer; the driver then serves one request against
\* an engine of the same behaviour
InitPoll ==
    /\ Probed(BounceSectors, CapacitySectors, {1}, 0, FALSE)
    /\ \E b \in Behaviours, dd \in {0, 1} : tool = ToolStart(b, dd)
    /\ diag = NoDiag
    /\ drv = Bound
    /\ flush = NoFlush

ToolReturned == tool.pc = "returned"

\* the engine of the driver ends a transfer in time, or after the wait
EndTiming == tool.beh.in_time \/ \A w \in Workers : pc[w] # "wait"

\* the wait does not time out on an engine that ends its transfer in time
\* before the interrupt was handled
WaitTiming ==
    tool.beh.in_time => (~engine.busy /\ ~irq_line /\ hpc = "idle")

NextPoll ==
    \/ tool_entry
    \/ tool_program
    \/ tool_flush_src
    \/ tool_start
    \/ tool_loop
    \/ tool_claim
    \/ tool_irq_dma
    \/ tool_irq_other
    \/ tool_irq_none
    \/ tool_status
    \/ tool_dec
    \/ tool_timeout
    \/ tool_success
    \/ ToolEngineEnd
    \/ PlicOther
    \/ (ToolReturned /\ \E w \in Workers : omni_queue_rq_reject(w))
    \/ (ToolReturned /\ \E w \in Workers : omni_queue_rq_start(w))
    \/ \E w \in Workers : mutex_lock(w)
    \/ \E w \in Workers : stage_chunk(w)
    \/ \E w \in Workers : setup_transfer(w)
    \/ \E w \in Workers : reinit_completion(w)
    \/ \E w \in Workers : dma_start(w)
    \/ \E w \in Workers : wait_ready(w)
    \/ (WaitTiming /\ \E w \in Workers : wait_timeout(w))
    \/ \E w \in Workers : timeout_report(w)
    \/ \E w \in Workers : transfer_failed(w)
    \/ \E w \in Workers : transfer_ok(w)
    \/ \E w \in Workers : finish_chunk(w)
    \/ \E w \in Workers : mutex_unlock(w)
    \/ \E w \in Workers : omni_queue_rq_end(w)
    \/ (EndTiming /\ tool.beh.st = DMA_STATUS_DONE /\ EngineFinish)
    \/ (EndTiming /\ tool.beh.st # DMA_STATUS_DONE /\ EngineFail
          /\ hw_status' = tool.beh.st)
    \/ irq_handler_none
    \/ irq_handler_done
    \/ irq_handler_complete
    \/ irq_handler_count

SpecPoll == InitPoll /\ [][NextPoll]_vars

(***************************************************************************)
(* The diagnostic channel: GetStats and ResetStats                         *)
(***************************************************************************)
\* the calls of the diagnostic channel made in a run
MaxDiag == 3

\* a reset that leaves the interrupt counter alone
ResetCounters_KeepIrqs(st) ==
    [reads |-> 0, writes |-> 0, errors |-> 0, timeouts |-> 0, irqs |-> st.irqs]

\* ResetStats: zero all five counters
ResetCounters(st) ==
    [reads |-> 0, writes |-> 0, errors |-> 0, timeouts |-> 0, irqs |-> 0]

\* GetStats -> {reads, writes, errors, timeouts, irqs}
GetStats ==
    /\ diag.n < MaxDiag
    /\ diag' = [n |-> diag.n + 1, prev |-> "get", ret |-> <<stats>>,
                snap |-> stats]
    /\ UNCHANGED <<cvars, todo, wvars, dvars, hvars, gvars, tool, drv, flush>>

ResetStats ==
    /\ diag.n < MaxDiag
    /\ stats' = ResetCounters(stats)
    /\ diag' = [n |-> diag.n + 1, prev |-> "reset", ret |-> <<>>,
                snap |-> ResetCounters(stats)]
    /\ UNCHANGED <<dma_mutex, done, dma_buffer, regs>>
    /\ UNCHANGED <<cvars, todo, wvars, hvars, gvars, tool, drv, flush>>

InitDiag ==
    /\ Probed(BounceSectors, CapacitySectors, {1}, MaxSpurious, FALSE)
    /\ tool = NoTool
    /\ diag = NoDiag
    /\ drv = Bound
    /\ flush = NoFlush

\* the driver with its diagnostic channel in use
NextDiag ==
    \/ Next
    \/ GetStats
    \/ ResetStats

SpecDiag == InitDiag /\ [][NextDiag]_vars

(***************************************************************************)
(* omni_blkdev_probe and omni_blkdev_remove                                *)
(*                                                                         *)
(* drv.held is what the device structure holds of the block layer, in the  *)
(* order it was acquired; drv.acquired and drv.released log what the       *)
(* current call acquired and released.  The driver core binds a platform   *)
(* device when probe returns 0 and calls remove for bound devices only;    *)
(* it releases the devm_ resources itself when probe fails.                *)
(***************************************************************************)
\* the platform devices that match the driver
Devices == {1, 2}

\* the calls of probe and remove in a run
MaxCalls == 4

\* no device was probed
Unprobed ==
    [g_omni_dev |-> 0, pc |-> "idle", pdev |-> 0, bound |-> {}, held |-> <<>>,
     acquired |-> <<>>, released |-> <<>>, ret |-> <<>>, last |-> "none",
     calls |-> 0]

Called(d, what) ==
    [drv EXCEPT !.pdev = d, !.last = what, !.calls = @ + 1, !.ret = <<>>,
                !.acquired = <<>>, !.released = <<>>]

Acquire(v, r) ==
    [v EXCEPT !.held = Append(@, r), !.acquired = Append(@, r)]

Release(v, r) ==
    [v EXCEPT !.held = SelectSeq(@, LAMBDA x : x # r),
              !.released = Append(@, r)]

Return(v, e) == [v EXCEPT !.ret = <<e>>, !.pc = "idle"]

\* if (g_omni_dev) return -EEXIST;
probe_exists(d) ==
    /\ drv.pc = "idle"
    /\ drv.calls < MaxCalls
    /\ d \notin drv.bound
    /\ drv.g_omni_dev # 0
    /\ drv' = Return(Called(d, "probe"), "-EEXIST")
    /\ UNCHANGED <<cvars, todo, wvars, dvars, hvars, gvars, tool, diag, flush>>

probe_enter(d) ==
    /\ drv.pc = "idle"
    /\ drv.calls < MaxCalls
    /\ d \notin drv.bound
    /\ drv.g_omni_dev = 0
    /\ drv' = [Called(d, "probe") EXCEPT !.pc = "devm"]
    /\ UNCHANGED <<cvars, todo, wvars, dvars, hvars, gvars, tool, diag, flush>>

\* devm_kzalloc, platform_get_resource, devm_ioremap_resource, devm_kmalloc,
\* platform_get_irq, devm_request_irq: a failure returns at once
probe_devm ==
    /\ drv.pc = "devm"
    /\ \/ drv' = [drv EXCEPT !.pc = "register_blkdev"]
       \/ \E e \in {"-ENOMEM", "-ENODEV"} : drv' = Return(drv, e)
    /\ UNCHANGED <<cvars, todo, wvars, dvars, hvars, gvars, tool, diag, flush>>

\* dev->major = register_blkdev(0, OMNI_BLKDEV_NAME); if (dev->major < 0) return
probe_register_blkdev ==
    /\ drv.pc = "register_blkdev"
    /\ \/ drv' = [Acquire(drv, "major") EXCEPT !.pc = "tag_set"]
       \/ drv' = Return(drv, "-EBUSY")
    /\ UNCHANGED <<cvars, todo, wvars, dvars, hvars, gvars, tool, diag, flush>>

\* a failure of blk_mq_alloc_disk that leaves by err_unregister_blkdev
ProbeFailTarget_Leak(step) ==
    CASE step = "tag_set" -> "err_unregister_blkdev"
      [] step = "disk" -> "err_unregister_blkdev"
      [] step = "add_disk" -> "err_put_disk"

\* the label each failure jumps to
ProbeFailTarget(step) ==
    CASE step = "tag_set" -> "err_unregister_blkdev"
      [] step = "disk" -> "err_free_tagset"
      [] step = "add_disk" -> "err_put_disk"

Failed(step) ==
    [drv EXCEPT !.ret = <<"-ENOMEM">>, !.pc = ProbeFailTarget(step)]

\* ret = blk_mq_alloc_tag_set(&dev->tag_set);
probe_tag_set ==
    /\ drv.pc = "tag_set"
    /\ \/ drv' = [Acquire(drv, "tag_set") EXCEPT !.pc = "disk"]
       \/ drv' = Failed("tag_set")
    /\ UNCHANGED <<cvars, todo, wvars, dvars, hvars, gvars, tool, diag, flush>>

\* dev->disk = blk_mq_alloc_disk(&dev->tag_set, &lim, dev);
probe_alloc_disk ==
    /\ drv.pc = "disk"
    /\ \/ drv' = [Acquire(drv, "disk") EXCEPT !.pc = "add_disk"]
       \/ drv' = Failed("disk")
    /\ UNCHANGED <<cvars, todo, wvars, dvars, hvars, gvars, tool, diag, flush>>

\* ret = add_disk(dev->disk); g_omni_dev = dev; return 0;
probe_add_disk ==
    /\ drv.pc = "add_disk"
    /\ \/ drv' = [Return(drv, "0") EXCEPT !.g_omni_dev = drv.pdev,
                                          !.bound = @ \cup {drv.pdev}]
       \/ drv' = Failed("add_disk")
    /\ UNCHANGED <<cvars, todo, wvars, dvars, hvars, gvars, tool, diag, flush>>

\* err_put_disk: put_disk(dev->disk);
err_put_disk ==
    /\ drv.pc = "err_put_disk"
    /\ drv' = [Release(drv, "disk") EXCEPT !.pc = "err_free_tagset"]
    /\ UNCHANGED <<cvars, todo, wvars, dvars, hvars, gvars, tool, diag, flush>>

\* err_free_tagset: blk_mq_free_tag_set(&dev->tag_set);
err_free_tagset ==
    /\ drv.pc = "err_free_tagset"
    /\ drv' = [Release(drv, "tag_set") EXCEPT !.pc = "err_unregister_blkdev"]
    /\ UNCHANGED <<cvars, todo, wvars, dvars, hvars, gvars, tool, diag, flush>>

\* err_unregister_blkdev: unregister_blkdev(dev->major, ...); return ret;
err_unregister_blkdev ==
    /\ drv.pc = "err_unregister_blkdev"
    /\ drv' = [Release(drv, "major") EXCEPT !.pc = "idle"]
    /\ UNCHANGED <<cvars, todo, wvars, dvars, hvars, gvars, tool, diag, flush>>

\* omni_blkdev_remove: del_gendisk, put_disk, blk_mq_free_tag_set,
\* unregister_blkdev
remove_release(d) ==
    /\ drv.pc = "idle"
    /\ drv.calls < MaxCalls
    /\ d \in drv.bound
    /\ drv' = [Release(Release(Release(Called(d, "remove"), "disk"),
                               "tag_set"), "major")
                  EXCEPT !.pc = "remove"]
    /\ UNCHANGED <<cvars, todo, wvars, dvars, hvars, gvars, tool, diag, flush>>

\* g_omni_dev = NULL; and the return to the driver core
remove_clear ==
    /\ drv.pc = "remove"
    /\ drv' = [drv EXCEPT !.g_omni_dev = 0, !.bound = @ \ {drv.pdev},
                          !.pc = "idle"]
    /\ UNCHANGED <<cvars, todo, wvars, dvars, hvars, gvars, tool, diag, flush>>

InitProbe ==
    /\ Probed(BounceSectors, CapacitySectors, {}, 0, FALSE)
    /\ tool = NoTool
    /\ diag = NoDiag
    /\ drv = Unprobed
    /\ flush = NoFlush

NextProbe ==
    \/ \E d \in Devices : probe_exists(d)
    \/ \E d \in Devices : probe_enter(d)
    \/ probe_devm
    \/ probe_register_blkdev
    \/ probe_tag_set
    \/ probe_alloc_disk
    \/ probe_add_disk
    \/ err_put_disk
    \/ err_free_tagset
    \/ err_unregister_blkdev
    \/ \E d \in Devices : remove_release(d)
    \/ remove_clear

SpecProbe == InitProbe /\ [][NextProbe]_vars

(***************************************************************************)
(* The cache helper: omni_flush_dcache_range(start_addr, length), called   *)
(* on its own with any start address and length of a window in which       *)
(* start_addr + length does not wrap around 2^64.  The block driver        *)
(* compiles the loop only under CONFIG_OMNI_CACHE_FLUSH; the character     *)
(* driver's copy always has it.                                            *)
(***************************************************************************)
CACHE_LINE_SIZE == 64

\* the largest start address and the largest length of a call
MaxFlushAddr == 70

MaxFlushLen == 130

\* a start address where the line boundary is due
AlignDown_None(a) == a

\* start_addr & ~(CACHE_LINE_SIZE - 1)
AlignDown(a) == a - (a % CACHE_LINE_SIZE)

\* #else branch: (void)start_addr; (void)length;
flush_stub ==
    /\ flush.pc = "call"
    /\ ~flush.config
    /\ flush' = [flush EXCEPT !.pc = "done"]
    /\ UNCHANGED <<cvars, todo, wvars, dvars, hvars, gvars, tool, diag, drv>>

\* u64 end = start_addr + length; addr = start_addr & ~(CACHE_LINE_SIZE - 1)
flush_entry ==
    /\ flush.pc = "call"
    /\ flush.config
    /\ flush' = [flush EXCEPT !.end = flush.start_addr + flush.length,
                              !.addr = AlignDown(flush.start_addr),
                              !.pc = "loop"]
    /\ UNCHANGED <<cvars, todo, wvars, dvars, hvars, gvars, tool, diag, drv>>

\* addr < end: omni_flush_dcache_line(addr); addr += CACHE_LINE_SIZE
flush_line ==
    /\ flush.pc = "loop"
    /\ flush.addr < flush.end
    /\ flush' = [flush EXCEPT !.lines = Append(@, flush.addr),
                              !.addr = @ + CACHE_LINE_SIZE]
    /\ UNCHANGED <<cvars, todo, wvars, dvars, hvars, gvars, tool, diag, drv>>

\* the loop ends when addr < end fails
flush_return ==
    /\ flush.pc = "loop"
    /\ ~(flush.addr < flush.end)
    /\ flush' = [flush EXCEPT !.pc = "done"]
    /\ UNCHANGED <<cvars, todo, wvars, dvars, hvars, gvars, tool, diag, drv>>

InitFlush ==
    /\ Probed(BounceSectors, CapacitySectors, {}, 0, FALSE)
    /\ tool = NoTool
    /\ diag = NoDiag
    /\ drv = Bound
    /\ \E a \in 0..MaxFlushAddr, n \in 0..MaxFlushLen, c \in BOOLEAN :
          flush = [pc |-> "call", config |-> c, start_addr |-> a,
                   length |-> n, end |-> 0, addr |-> 0, lines |-> <<>>]

NextFlush ==
    \/ flush_stub
    \/ flush_entry
    \/ flush_line
    \/ flush_return

SpecFlush == InitFlush /\ [][NextFlush]_vars

(***************************************************************************)
(* Properties                                                              *)
(***************************************************************************)
\* the positions at which a worker is inside omni_do_dma_transfer
InExecutor == {"setup", "reinit", "start", "wait", "timedout", "ret"}

\* the positions between mutex_lock and mutex_unlock
InRequest == {"chunk", "copy", "out"} \cup InExecutor

CeilDiv(a, b) == (a + b - 1) \div b

NChunks(w) == SumSeq([s \in DOMAIN chunks[w] |-> Len(chunks[w][s])])

\* C1: at most one transfer is in flight on the engine at any instant: the
\* start bit (DMA_CONTROL = 1) is never written while the engine is still
\* running an earlier transfer, also not one whose wait timed out.
C1_StartOnlyWhenIdle ==
    [][\A w \in Workers :
          (pc[w] = "start" /\ pc'[w] # "start") => ~engine.busy]_vars

\* C2: two requests on the device never interleave at chunk level: while one
\* request is between the staging of its first chunk and the completion or
\* failure of its last, no other request stages, programs or starts a chunk.
C2_NoChunkInterleaving ==
    \A w, v \in Workers :
        (w # v /\ pc[w] \in InRequest) => pc[v] \notin InRequest

\* a request is in the middle of a transfer while the other waits for the mutex
C2_Witness ==
    \E w, v \in Workers : pc[w] = "wait" /\ engine.busy /\ pc[v] = "lock"

\* C3: when every chunk completes successfully (no call of
\* omni_do_dma_transfer returned an error), two requests handled concurrently leave the remote memory and the pages, and make the
\* number of transfers, of the same two requests run one after the other in
\* the order in which they took dma_mutex.
C3_SerialEquivalence ==
    (stats.errors = 0 /\ stats.timeouts = 0) =>
        /\ \A w \in Workers :
              pc[w] = "out" =>
                  /\ status[w] = BLK_STS_OK
                  /\ page[w] = expected[w].pages
                  /\ NChunks(w) = expected[w].n
        /\ dma_mutex = NoWorker =>
              /\ omni_mem = ref_mem
              /\ stats.reads + stats.writes = ref_n

\* both requests are done and wrote sector 0; they were pending together:
\* worker 1 was dispatched first and took the mutex last, its data is on top
C3_Witness ==
    /\ stats.errors = 0
    /\ todo = {}
    /\ \A w \in Workers : pc[w] = "idle" /\ rq[w].op = REQ_OP_WRITE
    /\ \A w \in Workers : rq[w].pos = 0 /\ ended[w] = BLK_STS_OK
    /\ Len(rq[2].segs) = 2
    /\ omni_mem[0] = 111
    /\ omni_mem[1] = 221

\* C4: no completion is missed: a complete() that the handler makes at any
\* point after the start bit was written, also before the worker waits,
\* makes the wait return ready; it cannot time out.
C4_NoMissedCompletion ==
    \A w \in Workers : (pc[w] = "wait" /\ sig) => done > 0

\* the handler signalled after the start bit, and the worker is yet to wait
C4_Witness ==
    \E w \in Workers : pc[w] = "wait" /\ sig /\ done = 1

\* C5: in a request that does not fail, a segment of length L is handed to
\* omni_do_dma_transfer in exactly ceil(L / B) chunks, B the size of the
\* bounce buffer; each is at least 1 and at most B long, and each but the
\* last of the segment is exactly B long.
C5_ChunkCount ==
    \A w \in Workers :
        pc[w] \in InRequest =>
            \A s \in DOMAIN chunks[w] :
                LET c == chunks[w][s] IN
                /\ \A i \in DOMAIN c :
                      /\ c[i] >= 1
                      /\ c[i] <= dma_buffer_size
                      /\ i < Len(c) => c[i] = dma_buffer_size
                /\ (s < seg[w] \/ (pc[w] = "out" /\ status[w] = BLK_STS_OK))
                      => Len(c) = CeilDiv(rq[w].segs[s], dma_buffer_size)

\* a request that succeeded, with a segment longer than the bounce buffer
\* whose last chunk is a partial one, and a second segment
C5_Witness ==
    \E w \in Workers :
        /\ pc[w] = "out"
        /\ status[w] = BLK_STS_OK
        /\ Len(rq[w].segs) = 2
        /\ \E s \in DOMAIN chunks[w] :
              /\ Len(chunks[w][s]) = 2
              /\ chunks[w][s][2] < dma_buffer_size

\* C6: when a call of omni_do_dma_transfer returns an error the request is
\* aborted at once: no further chunk of the segment and no chunk of a later
\* segment is staged, programmed or started, and omni_handle_request
\* returns BLK_STS_IOERR.
C6_AbortOnFirstError ==
    \A w \in Workers :
        /\ ret[w] # 0 => pc[w] \in {"ret", "out"}
        /\ (pc[w] = "out" /\ ret[w] # 0) => status[w] = BLK_STS_IOERR
        /\ (pc[w] = "out" /\ status[w] = BLK_STS_IOERR) =>
              /\ ret[w] # 0
              /\ \A s \in DOMAIN chunks[w] : s > seg[w] => chunks[w][s] = <<>>
              /\ SumSeq(chunks[w][seg[w]]) = offset[w] + chunk_size[w]

\* a request fails at the first chunk of its first segment; more chunks of
\* the segment and a second segment were left
C6_Witness ==
    \E w \in Workers :
        /\ pc[w] = "out"
        /\ status[w] = BLK_STS_IOERR
        /\ seg[w] = 1
        /\ offset[w] = 0
        /\ chunk_size[w] < len(w)
        /\ Len(rq[w].segs) = 2

\* the chunks of the request of w that returned 0 before the one that failed
EarlierOk(w) == NChunks(w) - 1

\* the counters that a request that times out changes, from the mutex taken
\* to the mutex released
TimeoutCounts(w) ==
    /\ stats.timeouts = stats0[w].timeouts + 1
    /\ stats.errors = stats0[w].errors + 1
    /\ stats.reads =
          stats0[w].reads + (IF is_write(w) THEN 0 ELSE EarlierOk(w))
    /\ stats.writes =
          stats0[w].writes + (IF is_write(w) THEN EarlierOk(w) ELSE 0)

\* C7 (as stated): when the completion is not signalled within the timeout
\* for a chunk, omni_handle_request returns BLK_STS_IOERR, dma_timeouts and
\* dma_errors have each grown by exactly 1 over the request, dma_reads and
\* dma_writes are unchanged beyond the chunks that succeeded earlier in the
\* request, and irq_count is unchanged.
C7_TimeoutCountsIrqUnchanged ==
    \A w \in Workers :
        (pc[w] = "out" /\ ret[w] # 0) =>
            /\ status[w] = BLK_STS_IOERR
            /\ TimeoutCounts(w)
            /\ stats.irqs = stats0[w].irqs

\* C7 (amended): as stated, but irq_count is not unchanged: it has not
\* decreased, and it has grown by the interrupts that were handled with the
\* done bit set during the request.
C7_TimeoutCounts ==
    \A w \in Workers :
        (pc[w] = "out" /\ ret[w] # 0) =>
            /\ status[w] = BLK_STS_IOERR
            /\ TimeoutCounts(w)
            /\ stats.irqs >= stats0[w].irqs

\* a request times out at its second chunk
C7_Witness ==
    \E w \in Workers :
        /\ pc[w] = "out"
        /\ ret[w] # 0
        /\ EarlierOk(w) = 1
        /\ stats.timeouts = 1
        /\ stats.irqs = 1

\* C8: on every path through omni_handle_request the mutex taken at entry is
\* released once before the return: a worker holds the mutex exactly while it
\* is between mutex_lock and mutex_unlock, so the mutex is free whenever no
\* request is being processed.
C8_GuardReleased ==
    /\ \A w \in Workers : dma_mutex = w <=> pc[w] \in InRequest
    /\ dma_mutex \in Workers \cup {NoWorker}

\* a request that failed and a request that succeeded have both returned
C8_Witness ==
    /\ dma_mutex = NoWorker
    /\ todo = {}
    /\ \A w \in Workers : pc[w] = "idle"
    /\ \E w, v \in Workers :
          ended[w] = BLK_STS_IOERR /\ ended[v] = BLK_STS_OK

\* C9: a request that is neither a read nor a write is rejected with
\* BLK_STS_IOERR without touching the engine: the mutex is not taken, no
\* register is written, the completion, the bounce buffer and the statistics
\* are unchanged, and the request is neither started nor ended.
C9_RejectUntouched ==
    [][\A w \in Workers :
          rq'[w].op \notin {REQ_OP_READ, REQ_OP_WRITE, "none"} =>
              /\ pc'[w] = "idle"
              /\ ~started'[w]
              /\ ended'[w] = BLK_STS_NONE
              /\ retval'[w] = BLK_STS_IOERR
              /\ dma_mutex' # w
              /\ rq'[w] # rq[w] => UNCHANGED <<dvars, hvars>>]_vars

\* a request was rejected while the engine runs a transfer of the other
C9_Witness ==
    \E w, v \in Workers :
        /\ rq[w].op = REQ_OP_FLUSH
        /\ retval[w] = BLK_STS_IOERR
        /\ pc[v] = "wait"
        /\ engine.busy

\* C10: after a write request of N bytes at sector S that returned
\* BLK_STS_OK, a read request of N bytes at sector S that returns BLK_STS_OK,
\* with no write to the range in between, yields the bytes that were written,
\* whatever the segments of the two requests.
C10_RoundTrip ==
    \A w \in Workers :
        ( /\ pc[w] = "out"
          /\ rq[w].op = REQ_OP_READ
          /\ status[w] = BLK_STS_OK
          /\ last_write.valid
          /\ last_write.pos = rq[w].pos
          /\ Len(last_write.data) = TotalSectors(rq[w]) )
        => Flatten(page[w]) = last_write.data

\* the steps omni_do_dma_transfer takes from the timeout to its return
TimeoutPath(w) ==
    /\ pc[w] = "timedout" \/ (pc[w] = "ret" /\ ret[w] # 0)
    /\ pc'[w] # pc[w]

\* what these steps do: the counters, the return value, and no write to a
\* register of the DMA controller
TimeoutEffect(w) ==
    /\ UNCHANGED <<regs, engine, hw_status, done, dma_buffer, dma_mutex>>
    /\ pc[w] = "timedout" =>
          /\ stats' = [stats EXCEPT !.timeouts = @ + 1]
          /\ ret'[w] = -ETIMEDOUT
    /\ pc[w] = "ret" =>
          /\ stats' = [stats EXCEPT !.errors = @ + 1]
          /\ ret'[w] = ret[w]
          /\ pc'[w] = "out"

\* C11 (as stated): when the wait times out, omni_do_dma_transfer increments
\* dma_timeouts and dma_errors and returns -ETIMEDOUT, and between the timeout
\* and the return no register of the DMA controller is read or written.
C11_TimeoutNoRegisterAccess ==
    [][\A w \in Workers :
          TimeoutPath(w) => (TimeoutEffect(w) /\ logged'[w] = logged[w])]_vars

\* C11 (amended): as stated, but DMA_STATUS is read once, for the timeout
\* message, before dma_timeouts is incremented; no register is written.
C11_TimeoutNoRegisterWrite ==
    [][\A w \in Workers :
          TimeoutPath(w) =>
              /\ TimeoutEffect(w)
              /\ pc[w] = "timedout" => logged'[w] = <<hw_status>>
              /\ pc[w] = "ret" => logged'[w] = logged[w]]_vars

\* a transfer timed out and failed the request; the engine finished it after
\* the timeout, and the message shows the done bit
C11_Witness ==
    \E w \in Workers :
        /\ pc[w] = "out"
        /\ ret[w] = -ETIMEDOUT
        /\ logged[w] = <<DMA_STATUS_DONE>>
        /\ stats.timeouts = 1
        /\ stats.errors = 1

\* a step of omni_dma_irq_handler
HandlerStep ==
    \/ hpc' # hpc
    \/ spurious' # spurious
    \/ irq_line /\ ~irq_line'

\* C12: invoked for a hardware event, omni_dma_irq_handler calls complete(),
\* increments irq_count by exactly 1 and returns IRQ_HANDLED if and only if
\* the DMA_STATUS value it read has the bit DMA_STATUS_DONE (0x4) set; when
\* the bit is clear it returns IRQ_NONE, does not call complete() and leaves
\* irq_count unchanged.
C12_HandledIffDone ==
    [][HandlerStep =>
          CASE hpc = "idle" ->
                  IF (hw_status \div DMA_STATUS_DONE) % 2 = 1
                  THEN /\ hpc' = "complete"
                       /\ UNCHANGED <<done, stats, irq_ret>>
                  ELSE /\ hpc' = "idle"
                       /\ irq_ret' = IRQ_NONE
                       /\ UNCHANGED <<done, stats>>
            [] hpc = "complete" ->
                  /\ done' = done + 1
                  /\ hpc' = "count"
                  /\ UNCHANGED <<stats, irq_ret>>
            [] hpc = "count" ->
                  /\ stats' = [stats EXCEPT !.irqs = @ + 1]
                  /\ irq_ret' = IRQ_HANDLED
                  /\ hpc' = "idle"
                  /\ done' = done]_vars

\* the handler handled the interrupt of a transfer, and after the next start
\* bit it was invoked for another device: it returned IRQ_NONE
C12_Witness ==
    /\ stats.irqs = 1
    /\ irq_ret = IRQ_NONE
    /\ hw_status = 0
    /\ hpc = "idle"
    /\ spurious = 0

\* C13: omni_dma_irq_handler never blocks and changes nothing but the
\* completion and irq_count: each of its steps can be taken whether dma_mutex
\* is held or not, and leaves dma_mutex, the registers of the DMA controller,
\* the bounce buffer, the state of the workers and dma_reads, dma_writes,
\* dma_errors and dma_timeouts unchanged.
C13_HandlerFrame ==
    /\ [](/\ (hpc = "idle" /\ (irq_line \/ spurious > 0)) =>
               ENABLED (irq_handler_none \/ irq_handler_done)
          /\ hpc = "complete" => ENABLED irq_handler_complete
          /\ hpc = "count" => ENABLED irq_handler_count)
    /\ [][HandlerStep =>
             /\ UNCHANGED <<wvars, dma_mutex, dma_buffer, regs>>
             /\ UNCHANGED <<hw_status, engine, omni_mem>>
             /\ stats'.reads = stats.reads
             /\ stats'.writes = stats.writes
             /\ stats'.errors = stats.errors
             /\ stats'.timeouts = stats.timeouts]_vars

\* the handler has called complete() and is about to count the interrupt,
\* while a worker holds dma_mutex and is still in its wait
C13_Witness ==
    \E w \in Workers :
        /\ hpc = "count"
        /\ dma_mutex = w
        /\ pc[w] = "wait"
        /\ done = 1

\* bytes of the chunks handed to omni_do_dma_transfer so far
ChunkBytes(w) == SumSeq([s \in DOMAIN chunks[w] |-> SumSeq(chunks[w][s])])

\* bytes of the segments before segment k
SegBytes(r, k) == SumSeq(SubSeq(r.segs, 1, k - 1))

\* the remote address programmed into the registers, in sectors
RemoteReg(w) ==
    IF is_write(w)
    THEN RegAddr(regs.DST_ADDR_LO, regs.DST_ADDR_HI)
    ELSE RegAddr(regs.SRC_ADDR_LO, regs.SRC_ADDR_HI)

\* C14: for a request at sector S whose segments are multiples of 512 bytes,
\* the sector cursor after segment k is S plus the sum of the lengths of the
\* segments 1..k divided by 512, and the remote ranges of the chunks of the
\* request, in order, tile [S * 512, S * 512 + total length): each chunk
\* starts where the chunk before it ended, the first at S * 512, and the last
\* ends at the end of the request.
C14_CursorAndTiling ==
    \A w \in Workers :
        pc[w] \in InRequest =>
            /\ sector[w] * OMNI_SECTOR_SIZE =
                  rq[w].pos * OMNI_SECTOR_SIZE + SegBytes(rq[w], seg[w])
            /\ pc[w] \in {"reinit", "start", "wait", "timedout", "ret", "copy"} =>
                  /\ regs.LENGTH_LO = chunk_size[w]
                  /\ (RemoteReg(w) - OMNI_REMOTE_MEM_BASE_S) * OMNI_SECTOR_SIZE
                        = rq[w].pos * OMNI_SECTOR_SIZE
                            + ChunkBytes(w) - chunk_size[w]
                  /\ ChunkBytes(w) =
                        SegBytes(rq[w], seg[w]) + offset[w] + chunk_size[w]
            /\ pc[w] \in {"chunk", "setup"} =>
                  ChunkBytes(w) = SegBytes(rq[w], seg[w]) + offset[w]
            /\ (pc[w] = "out" /\ status[w] = BLK_STS_OK) =>
                  /\ ChunkBytes(w) = SumSeq(rq[w].segs)
                  /\ sector[w] = rq[w].pos + TotalSectors(rq[w])

\* the chunk of the second segment of a request at sector 1 is programmed:
\* it lies behind the two sectors of the first segment
C14_Witness ==
    \E w \in Workers :
        /\ pc[w] = "start"
        /\ rq[w].pos = 1
        /\ rq[w].segs = <<2 * OMNI_SECTOR_SIZE, OMNI_SECTOR_SIZE>>
        /\ seg[w] = 2
        /\ RemoteReg(w) = OMNI_REMOTE_MEM_BASE_S + 3

\* the workers that take the step from position p, and whose call of
\* omni_do_dma_transfer has (failed = TRUE) or has not returned an error
Leaving(p, failed) ==
    {w \in Workers : pc[w] = p /\ pc'[w] # p /\ (ret[w] # 0) = failed}

\* C15: the five counters are non-negative and never decrease, whatever the
\* interleaving of the workers and the interrupt handler, and no increment is
\* lost: every atomic64_inc that is executed raises its counter by 1, also
\* when a worker and the handler are both about to increment.
C15_CountersMonotonic ==
    /\ [](\A c \in DOMAIN stats : stats[c] >= 0)
    /\ [][/\ \A c \in DOMAIN stats : stats'[c] >= stats[c]
          /\ stats'.irqs = stats.irqs
                + (IF hpc = "count" /\ hpc' # "count" THEN 1 ELSE 0)
          /\ stats'.timeouts = stats.timeouts
                + Cardinality({w \in Workers :
                                  pc[w] = "timedout" /\ pc'[w] # "timedout"})
          /\ stats'.errors = stats.errors
                + Cardinality(Leaving("ret", TRUE))
          /\ stats'.reads + stats'.writes = stats.reads + stats.writes
                + Cardinality(Leaving("ret", FALSE))]_vars

\* every counter was incremented, and the handler is about to count one more
\* interrupt while a worker is about to count its transfer
C15_Witness ==
    /\ \A c \in DOMAIN stats : stats[c] >= 1
    /\ hpc = "count"
    /\ \E w \in Workers : pc[w] = "ret"

\* C16: every call of omni_do_dma_transfer that returns 0 increments exactly
\* one counter by exactly 1, dma_writes for a write and dma_reads for a read,
\* and leaves dma_errors and dma_timeouts unchanged; a request that completes
\* with n chunks has raised dma_reads or dma_writes by exactly n.
C16_SuccessCounts ==
    /\ [][\A w \in Leaving("ret", FALSE) :
             stats' = IF rq[w].op = REQ_OP_WRITE
                      THEN [stats EXCEPT !.writes = @ + 1]
                      ELSE [stats EXCEPT !.reads = @ + 1]]_vars
    /\ [](\A w \in Workers :
             (pc[w] = "out" /\ status[w] = BLK_STS_OK) =>
                 /\ stats.reads = stats0[w].reads
                       + (IF rq[w].op = REQ_OP_READ THEN NChunks(w) ELSE 0)
                 /\ stats.writes = stats0[w].writes
                       + (IF rq[w].op = REQ_OP_WRITE THEN NChunks(w) ELSE 0)
                 /\ stats.errors = stats0[w].errors
                 /\ stats.timeouts = stats0[w].timeouts)

\* a read request of three chunks has completed
C16_Witness ==
    \E w \in Workers :
        /\ pc[w] = "out"
        /\ status[w] = BLK_STS_OK
        /\ rq[w].op = REQ_OP_READ
        /\ NChunks(w) = 3
        /\ stats.reads = 3
        /\ stats.writes = 0

\* every segment of the request of w was handed over in full, and the last
\* call of omni_do_dma_transfer returned 0
AllChunksOk(w) ==
    /\ ret[w] = 0
    /\ \A s \in DOMAIN chunks[w] : SumSeq(chunks[w][s]) = rq[w].segs[s]

\* C17: for every read or write request, the status handed to
\* blk_mq_end_request is the result of omni_handle_request, which is
\* BLK_STS_OK if and only if every chunk of every segment returned 0 and
\* BLK_STS_IOERR otherwise; it is reported once, after
\* blk_mq_start_request and after dma_mutex was released.
C17_FinalStatus ==
    /\ [](\A w \in Workers :
             pc[w] = "out" =>
                 /\ status[w] = BLK_STS_OK <=> AllChunksOk(w)
                 /\ status[w] = BLK_STS_IOERR <=> ~AllChunksOk(w))
    /\ [][\A w \in Workers :
             /\ (pc[w] = "out" /\ pc'[w] # "out") =>
                   (pc'[w] = "end" /\ status'[w] = status[w])
             /\ ended'[w] # ended[w] =>
                   /\ pc[w] = "end"
                   /\ ended[w] = BLK_STS_NONE
                   /\ ended'[w] = status[w]
                   /\ started[w]
                   /\ dma_mutex # w
                   /\ pc'[w] = "idle"]_vars

\* a request that failed was ended with BLK_STS_IOERR while the request of
\* the other worker is in a transfer
C17_Witness ==
    \E w, v \in Workers :
        /\ ended[w] = BLK_STS_IOERR
        /\ started[w]
        /\ pc[w] = "idle"
        /\ pc[v] = "wait"
        /\ dma_mutex = v

\* the order of the positions of a request: Idle, Started, then per chunk
\* Staging, Transferring, WaitingCompletion, ChunkDone or ChunkFailed, and
\* at last Completed or Failed
RequestOrder ==
    {<<"idle", "lock">>, <<"lock", "chunk">>, <<"chunk", "setup">>,
     <<"setup", "reinit">>, <<"reinit", "start">>, <<"start", "wait">>,
     <<"wait", "ret">>, <<"wait", "timedout">>, <<"timedout", "ret">>,
     <<"ret", "copy">>, <<"ret", "out">>, <<"copy", "chunk">>,
     <<"copy", "out">>, <<"out", "end">>, <<"end", "idle">>}

\* C18: every accepted request terminates: under fair scheduling, from every
\* position of the state machine the request is eventually ended with
\* BLK_STS_OK or BLK_STS_IOERR; the positions follow each other in the order
\* of the state machine only, so a request that waits for dma_mutex takes it
\* and each wait ends with the completion or with the timeout; and offset
\* grows in every iteration of the loop over a segment.
C18_Terminates ==
    /\ \A w \in Workers :
          (pc[w] # "idle") ~> (ended[w] \in {BLK_STS_OK, BLK_STS_IOERR})
    /\ [][\A w \in Workers :
             /\ pc'[w] # pc[w] => <<pc[w], pc'[w]>> \in RequestOrder
             /\ (pc[w] = "lock" /\ pc'[w] # "lock") => dma_mutex' = w
             /\ (pc[w] = "copy" /\ pc'[w] = "chunk") =>
                   \/ seg'[w] = seg[w] /\ offset'[w] > offset[w]
                   \/ seg'[w] = seg[w] + 1 /\ offset'[w] = 0]_vars

\* both requests have two chunks and both were ended with BLK_STS_OK
C18_Witness ==
    /\ \A w \in Workers : pc[w] = "idle" /\ ended[w] = BLK_STS_OK
    /\ stats.reads + stats.writes = 4
    /\ stats.timeouts = 0

\* C19: there is no retry: for each chunk of a request the start bit is
\* written exactly once, a chunk that timed out or failed is not started
\* again, and the number of writes of the start bit made for a request is its
\* number of chunks up to and including the first that failed.
C19_NoRetry ==
    \A w \in Workers :
        pc[w] \in InRequest =>
            /\ starts[w] =
                  IF pc[w] \in {"reinit", "start"}
                  THEN NChunks(w) - 1 ELSE NChunks(w)
            /\ (pc[w] = "out" /\ status[w] = BLK_STS_IOERR) =>
                  /\ \A s \in DOMAIN chunks[w] :
                        s > seg[w] => chunks[w][s] = <<>>
                  /\ SumSeq(chunks[w][seg[w]]) = offset[w] + chunk_size[w]

\* a request failed at its second chunk: the start bit was written twice
C19_Witness ==
    \E w \in Workers :
        /\ pc[w] = "out"
        /\ status[w] = BLK_STS_IOERR
        /\ starts[w] = 2
        /\ NChunks(w) = 2
        /\ stats.timeouts = 1

\* C20: a transfer that the engine ends with a status that shows a failure,
\* not a timeout, makes omni_do_dma_transfer return an error and is handled
\* like a timeout: dma_errors is incremented, the request is aborted with
\* BLK_STS_IOERR, and neither dma_reads nor dma_writes is incremented for the
\* chunk.
C20_EngineErrorHandled ==
    \A w \in Workers :
        cur = "failed" =>
            /\ pc[w] = "ret" => ret[w] # 0
            /\ pc[w] # "copy"
            /\ pc[w] = "out" =>
                  /\ status[w] = BLK_STS_IOERR
                  /\ stats.errors = stats0[w].errors + 1
                  /\ stats.reads + stats.writes =
                        stats0[w].reads + stats0[w].writes + EarlierOk(w)

(***************************************************************************)
(* C21: a completion signalled while no waiter is pending has no effect on *)
(* later transfers.  reinit_completion leaves no pending completion        *)
(* whatever number was signalled before it, and touches nothing else of    *)
(* the device; a wait that follows finds a completion pending, and returns *)
(* Ready, only when complete() was called after that reset.                *)
(***************************************************************************)
C21_SignalsBeforeResetDiscarded ==
    /\ [](\A w \in Workers :
            (pc[w] \in {"start", "wait"} /\ done > 0) => fresh)
    /\ [][\A w \in Workers :
            /\ (pc[w] = "reinit" /\ pc'[w] # "reinit") =>
                  /\ done' = 0
                  /\ UNCHANGED <<stats, regs, dma_buffer, dma_mutex, hvars>>
            /\ (pc[w] = "wait" /\ pc'[w] = "ret") => (ret'[w] = 0 /\ fresh)
         ]_vars

\* the second transfer of a request is running and unfinished, and the second
\* interrupt was handled and signalled before its reinit_completion: nothing
\* is pending for the waiter
C21_Witness ==
    \E w \in Workers :
        /\ pc[w] = "wait"
        /\ starts[w] = 2
        /\ engine.busy
        /\ hpc = "idle"
        /\ stats.irqs = 2
        /\ done = 0

(***************************************************************************)
(* C22: the polling strategy of the scenario tool and the interrupt        *)
(* strategy of the driver give the same Ready/TimedOut outcome for a       *)
(* transfer against an engine of the same behaviour: dma_transfer returns  *)
(* 1 exactly when the first omni_do_dma_transfer of the driver's request   *)
(* returns 0.                                                              *)
(***************************************************************************)
C22_SameOutcome ==
    \A w \in Workers :
        (ToolReturned /\ pc[w] = "ret" /\ starts[w] = 1) =>
            (ret[w] = 0 <=> tool.ret = <<1>>)

(***************************************************************************)
(* C29: in the polling loop of dma_transfer every non-zero id read from    *)
(* the claim register is written back with plic_complete exactly once      *)
(* before the next claim and before the function returns; the loop makes   *)
(* at most as many iterations as its budget; the function returns 1 only   *)
(* when it claimed the interrupt of the engine or read a status word with  *)
(* bit 0x1, after flushing the destination, and returns 0 without flushing *)
(* the destination otherwise.                                              *)
(***************************************************************************)
C29_ClaimsAcknowledged ==
    tool.pc # "off" =>
        /\ tool.polls <= PollBudget
        /\ tool.pc = "irq" =>
              /\ tool.inservice = {tool.irq} \ {0}
              /\ tool.claims - tool.acks = Cardinality(tool.inservice)
        /\ tool.pc # "irq" =>
              /\ tool.inservice = {}
              /\ tool.claims = tool.acks
        /\ tool.pc = "returned" =>
              /\ tool.ret \in {<<0>>, <<1>>}
              /\ tool.ret = <<1>> =>
                    /\ tool.irq = DMA_IRQ_NUM \/ tool.status % 2 = 1
                    /\ tool.flushed = <<"src", "dst">>
              /\ tool.ret = <<0>> =>
                    /\ tool.irq # DMA_IRQ_NUM /\ tool.status % 2 = 0
                    /\ tool.polls = PollBudget
                    /\ tool.flushed = <<"src">>

\* the tool returned 1 after it claimed and acknowledged the interrupt of
\* another source and then the interrupt of the engine
C29_Witness ==
    /\ tool.pc = "returned"
    /\ tool.ret = <<1>>
    /\ tool.irq = DMA_IRQ_NUM
    /\ tool.claims = 2
    /\ tool.acks = 2

(***************************************************************************)
(* C23: GetStats returns the five counters and changes no state; called    *)
(* after ResetStats with no counter incremented in between it returns zero *)
(* for all five, and called after GetStats with no counter incremented in  *)
(* between it returns the same values again.                               *)
(***************************************************************************)
C23_StatsChannel ==
    [][(diag'.prev = "get" /\ diag'.n = diag.n + 1) =>
          /\ UNCHANGED <<cvars, todo, wvars, dvars, hvars, gvars, tool, drv, flush>>
          /\ (diag.prev = "reset" /\ stats = diag.snap) =>
                /\ diag'.ret[1].reads = 0
                /\ diag'.ret[1].writes = 0
                /\ diag'.ret[1].errors = 0
                /\ diag'.ret[1].timeouts = 0
                /\ diag'.ret[1].irqs = 0
          /\ (diag.prev = "get" /\ stats = diag.snap) =>
                diag'.ret = diag.ret
      ]_vars

\* a transfer and its interrupt were counted, ResetStats was called, and the
\* GetStats that follows it directly has returned zeros
C23_Witness ==
    /\ diag.prev = "get"
    /\ diag.ret = <<NoStats>>
    /\ stats = NoStats
    /\ \E w \in Workers : pc[w] = "copy" /\ starts[w] = 1

(***************************************************************************)
(* C24: omni_do_dma_transfer flushes the source range (the bounce buffer   *)
(* for a write, the remote range for a read), programs the registers,      *)
(* resets the completion, writes the start bit and waits, in this order;   *)
(* only after a wait that returned 0 it flushes the destination range and  *)
(* then increments dma_writes or dma_reads.  The registers are written     *)
(* only before the completion is reset, and after a timeout the            *)
(* destination is not flushed and neither counter is incremented.          *)
(***************************************************************************)
C24_ExecutorOrder ==
    /\ [](\A w \in Workers :
            LET src == IF rq[w].op = REQ_OP_WRITE
                       THEN "flush_bounce" ELSE "flush_remote"
                dst == IF rq[w].op = REQ_OP_WRITE
                       THEN "flush_remote" ELSE "flush_bounce"
                waited == <<src, "program", "reset", "start", "wait">>
            IN  /\ pc[w] = "reinit" => ev[w] = SubSeq(waited, 1, 2)
                /\ pc[w] = "start" => ev[w] = SubSeq(waited, 1, 3)
                /\ pc[w] = "wait" => ev[w] = SubSeq(waited, 1, 4)
                /\ pc[w] \in {"timedout", "ret"} => ev[w] = waited
                /\ (pc[w] = "out" /\ status[w] = BLK_STS_IOERR) => ev[w] = waited
                /\ pc[w] = "copy" => ev[w] = waited \o <<dst, "count">>)
    /\ [][/\ regs' # regs => \E w \in Workers : pc[w] = "setup"
          /\ (stats'.reads # stats.reads \/ stats'.writes # stats.writes) =>
                \E w \in Workers :
                    pc[w] = "ret" /\ ret[w] = 0 /\ pc'[w] = "copy"
         ]_vars

\* the second chunk of a read went through the whole order
C24_Witness ==
    \E w \in Workers :
        /\ pc[w] = "copy"
        /\ rq[w].op = REQ_OP_READ
        /\ starts[w] = 2
        /\ ev[w] = <<"flush_remote", "program", "reset", "start", "wait",
                     "flush_bounce", "count">>

(***************************************************************************)
(* C25: for a write chunk the bytes [offset, offset + chunk_size) of the   *)
(* segment are in the bounce buffer before the start bit is written, and   *)
(* the pages of a write are never changed.  The pages of a read change     *)
(* only by the copy of the bounce buffer into the bytes of the chunk, made *)
(* after omni_do_dma_transfer returned 0.  When a chunk of a read fails,   *)
(* the bytes of that chunk and of every later chunk and segment are as the *)
(* request brought them, and the steps that follow leave the pages as they *)
(* are, so the earlier chunks keep the data read.                          *)
(***************************************************************************)
C25_Staging ==
    /\ [](\A w \in Workers :
            /\ (pc[w] \in {"setup", "reinit", "start"}
                    /\ rq[w].op = REQ_OP_WRITE) =>
                  \A i \in 0..(chunk_size[w] \div OMNI_SECTOR_SIZE - 1) :
                      dma_buffer[i] =
                          page[w][seg[w]][offset[w] \div OMNI_SECTOR_SIZE + i + 1]
            /\ (pc[w] \in InRequest /\ rq[w].op = REQ_OP_WRITE) =>
                  page[w] = PageData(w, rq[w])
            /\ (rq[w].op = REQ_OP_READ
                    /\ \/ pc[w] \in {"timedout"}
                       \/ pc[w] = "ret" /\ ret[w] # 0
                       \/ pc[w] = "out" /\ status[w] = BLK_STS_IOERR) =>
                  \A s \in seg[w]..Len(rq[w].segs) :
                     \A i \in 1..Len(page[w][s]) :
                        (s > seg[w] \/ i > offset[w] \div OMNI_SECTOR_SIZE) =>
                            page[w][s][i] = PageData(w, rq[w])[s][i])
    /\ [][\A w \in Workers :
            (pc[w] \in InRequest /\ page'[w] # page[w]) =>
                /\ pc[w] = "copy"
                /\ ret[w] = 0
                /\ rq[w].op = REQ_OP_READ
                /\ \A s \in 1..Len(page[w]) : \A i \in 1..Len(page[w][s]) :
                      page'[w][s][i] =
                         IF /\ s = seg[w]
                            /\ i - 1 >= offset[w] \div OMNI_SECTOR_SIZE
                            /\ i - 1 < (offset[w] + chunk_size[w])
                                          \div OMNI_SECTOR_SIZE
                         THEN dma_buffer[i - 1 - offset[w] \div OMNI_SECTOR_SIZE]
                         ELSE page[w][s][i]
         ]_vars

\* the second chunk of a read failed after the first chunk brought data
\* into the segment
C25_Witness ==
    \E w \in Workers :
        /\ pc[w] = "out"
        /\ status[w] = BLK_STS_IOERR
        /\ rq[w].op = REQ_OP_READ
        /\ offset[w] > 0
        /\ page[w][seg[w]][1] # 0
        /\ page[w][seg[w]][offset[w] \div OMNI_SECTOR_SIZE + 1] = 0

(***************************************************************************)
(* C26: omni_do_dma_transfer returns 0 only when the engine has finished   *)
(* the transfer that this invocation started: the wait is never satisfied  *)
(* by a completion that belongs to an earlier transfer or to a handler run *)
(* that read a stale done bit.                                             *)
(***************************************************************************)
C26_OkOnlyOwnTransfer ==
    [][\A w \in Workers :
          (pc[w] = "wait" /\ pc'[w] = "ret" /\ ret'[w] = 0) => cur = "finished"
      ]_vars

(***************************************************************************)
(* C27: dma_errors <= dma_timeouts <= dma_errors + 1 in every state, and   *)
(* the two are equal whenever no worker is inside omni_do_dma_transfer;    *)
(* dma_errors is incremented only by one, and only by the worker whose     *)
(* wait has just timed out.                                                *)
(***************************************************************************)
C27_ErrorsFollowTimeouts ==
    /\ [](/\ stats.errors <= stats.timeouts
          /\ stats.timeouts <= stats.errors + 1
          /\ (\A w \in Workers : pc[w] \notin InExecutor) =>
                stats.errors = stats.timeouts)
    /\ [][stats'.errors # stats.errors =>
            /\ stats'.errors = stats.errors + 1
            /\ \E w \in Workers :
                  /\ pc[w] = "ret"
                  /\ ret[w] = -ETIMEDOUT
                  /\ logged[w] # <<>>
                  /\ pc'[w] # "ret"
         ]_vars

\* the second timeout of the run was counted and its error is about to be
C27_Witness ==
    /\ stats.timeouts = 2
    /\ stats.errors = 1
    /\ \E w \in Workers : pc[w] = "ret"

(***************************************************************************)
(* C28: once a chunk is programmed, the source registers of a write hold   *)
(* the physical address of the bounce buffer and the destination registers *)
(* hold remote base + sector * 512 + offset; for a read the two are        *)
(* swapped.  Each _LO register holds the address modulo 2^32, each _HI     *)
(* register the address divided by 2^32, so that the pair read back as one *)
(* 64-bit value is the address; DMA_LENGTH_LO holds the chunk size and     *)
(* DMA_LENGTH_HI holds 0.  (Addresses are counted in sectors of 512 bytes; *)
(* the _LO registers hold bytes.)                                          *)
(***************************************************************************)
C28_Registers ==
    \A w \in Workers :
        pc[w] \in {"reinit", "start", "wait"} =>
            LET remote == OMNI_REMOTE_MEM_BASE_S + sector[w]
                              + offset[w] \div OMNI_SECTOR_SIZE
                wr == rq[w].op = REQ_OP_WRITE
                src == IF wr THEN DMA_BUFFER_PHYS_S ELSE remote
                dst == IF wr THEN remote ELSE DMA_BUFFER_PHYS_S
            IN  /\ regs.SRC_ADDR_LO = (src % WORD_S) * OMNI_SECTOR_SIZE
                /\ regs.SRC_ADDR_HI = src \div WORD_S
                /\ regs.DST_ADDR_LO = (dst % WORD_S) * OMNI_SECTOR_SIZE
                /\ regs.DST_ADDR_HI = dst \div WORD_S
                /\ regs.SRC_ADDR_HI * WORD_S
                      + regs.SRC_ADDR_LO \div OMNI_SECTOR_SIZE = src
                /\ regs.DST_ADDR_HI * WORD_S
                      + regs.DST_ADDR_LO \div OMNI_SECTOR_SIZE = dst
                /\ regs.LENGTH_LO = chunk_size[w]
                /\ regs.LENGTH_HI = 0

\* the second chunk of the second segment of a write is programmed: the
\* destination is above 2^32 and past the start of the request
C28_Witness ==
    \E w \in Workers :
        /\ pc[w] = "start"
        /\ rq[w].op = REQ_OP_WRITE
        /\ seg[w] = 2
        /\ offset[w] > 0
        /\ regs.DST_ADDR_HI = 2
        /\ regs.DST_ADDR_LO = (sector[w] * OMNI_SECTOR_SIZE) + offset[w]
        /\ regs.SRC_ADDR_HI = 0

(***************************************************************************)
(* C30: bring-up is all-or-nothing and single-instance.  A probe called    *)
(* while g_omni_dev is set returns -EEXIST and acquires nothing.  When a   *)
(* probe has returned any other error, the block major, the tag set and    *)
(* the disk it had acquired were released in the reverse order of their    *)
(* acquisition, nothing is held and g_omni_dev is unset.  g_omni_dev is    *)
(* set exactly while a device is bound, i.e. from a probe that returned 0  *)
(* to the end of the matching remove, and it names that device.            *)
(***************************************************************************)
C30_BringUp ==
    /\ [](drv.pc # "bound" =>
            /\ (drv.pc = "idle" /\ drv.last = "probe"
                    /\ drv.ret = <<"-EEXIST">>) =>
                  /\ drv.acquired = <<>> /\ drv.released = <<>>
                  /\ drv.g_omni_dev # 0 /\ drv.g_omni_dev # drv.pdev
            /\ (drv.pc = "idle" /\ drv.last = "probe"
                    /\ drv.ret \notin {<<"0">>, <<"-EEXIST">>}) =>
                  /\ drv.held = <<>>
                  /\ Len(drv.released) = Len(drv.acquired)
                  /\ \A i \in 1..Len(drv.acquired) :
                        drv.released[i] =
                            drv.acquired[Len(drv.acquired) + 1 - i]
                  /\ drv.g_omni_dev = 0
            /\ (drv.pc = "idle" /\ drv.last = "probe" /\ drv.ret = <<"0">>) =>
                  /\ drv.held = <<"major", "tag_set", "disk">>
                  /\ drv.g_omni_dev = drv.pdev
            /\ drv.g_omni_dev # 0 <=> drv.bound # {}
            /\ drv.g_omni_dev # 0 => drv.bound = {drv.g_omni_dev}
            /\ drv.pc \notin {"idle", "remove"} => drv.g_omni_dev = 0)
    /\ [][(drv.pc = "idle" /\ drv'.last = "probe"
              /\ drv'.calls = drv.calls + 1 /\ drv.g_omni_dev # 0) =>
            /\ drv'.pc = "idle"
            /\ drv'.ret = <<"-EEXIST">>
            /\ drv'.held = drv.held
            /\ drv'.g_omni_dev = drv.g_omni_dev
         ]_vars

\* add_disk failed for a device that held the major, the tag set and the
\* disk, after an earlier device was bound and removed
C30_Witness ==
    /\ drv.pc = "idle"
    /\ drv.last = "probe"
    /\ drv.ret = <<"-ENOMEM">>
    /\ drv.acquired = <<"major", "tag_set", "disk">>
    /\ drv.released = <<"disk", "tag_set", "major">>
    /\ drv.calls = 3

====
